---- MODULE Spec2Model ----
(***************************************************************************)
(* Verification model of the tool-invocation broker of mcpilot:            *)
(* executeGmailToolEnhanced (cache lookup, credential lookup, retry loop   *)
(* with timeout race and exponential backoff, result cache with eviction), *)
(* executeGoogleCalendarTool, clearGmailSearchCache and the credential     *)
(* store as written by the Gmail / Google Calendar auth routes.            *)
(*                                                                         *)
(* JavaScript runs the handlers on one event loop: the code between two    *)
(* awaits is one atomic action, and other invocations interleave only at   *)
(* the awaits (credential lookup, connect, callTool, close, backoff sleep).*)
(***************************************************************************)
EXTENDS Integers, Sequences, FiniteSets, TLC

----------------------------------------------------------------------------
(* Bounds of the model *)

MaxTicks == 2
MaxRetries == 2
MaxFaults == 3
MaxCacheFaults == 1
MaxConnectFaults == 1
MaxTimeoutRetries == 1
MaxSessionFaults == 2
MaxHistory == 1
MaxTimerTicks == 4
MaxEmails == 6
MaxClients == 3
MaxConnects == 3

(* Program constants *)

CACHE_TTL == 5 * 60 * 1000
CacheCapacity == 100
BackoffBase == 1000
DefaultTimeout == 45000
ContentLimit == 5

----------------------------------------------------------------------------
(* Inputs *)

InvIds == {"A", "B"}
Users == {"u1", "u2"}
BackgroundUser == "u0"

CacheableTools == {"list_messages", "search_emails"}
MutatingTools == {"send_message", "create_draft", "create_label"}
GmailToolNames == {"list_messages", "send_message"}
CalendarToolNames == {"get_calendar"}
ExaToolNames == {"web_search_exa"}

\* an arguments object: its fields in insertion order, as <<name, value>>
ArgsQ1 == << <<"q", "invoice">> >>
FillerArgs(n) == << <<"q", "filler">>, <<"pageToken", ToString(n)>> >>

TickStep == CACHE_TTL \div 2

----------------------------------------------------------------------------
(* Values *)

NoToken == <<>>
TokenOf(u) == <<"refresh_token", u>>
\* a request without a user credential (Exa) is answered for no user
TokenOwner(tk) == IF tk = NoToken THEN "" ELSE tk[2]

NoError == [kind |-> "none"]
ConfigMissing(k) == [kind |-> "configuration_missing", integration |-> k]
NotConnected(k) == [kind |-> "not_connected", integration |-> k]
AttemptError(kind, step, attempt) ==
    [kind |-> kind, step |-> step, attempt |-> attempt]

NoText == [type |-> "none"]
\* the text the remote answers to a request at a given time
RemoteText(owner, tool, args, ver) ==
    [type |-> "text", owner |-> owner, tool |-> tool, args |-> args, ver |-> ver]
TextItem(t) == [type |-> "text", text |-> t]
ImageItem == [type |-> "image", text |-> NoText]
NoReply == << [type |-> "noreply", text |-> NoText] >>

\* the content lists a remote may answer with
ReplyShapes == {"text", "image_text"}
\* replies that are not a list of items: callTool resolved with null or
\* undefined, with an object that has no content, with a content that is
\* not an array
NullReply == << [type |-> "null_reply", text |-> NoText] >>
NoContent == << [type |-> "no_content", text |-> NoText] >>
NotAList == << [type |-> "not_a_list", text |-> NoText] >>
MalformedShapes == {"empty", "image", "no_content", "not_a_list", "null_reply"}
\* the value undefined
Undefined == [type |-> "undefined"]
Content(shape, t) ==
    CASE shape = "text" -> <<TextItem(t)>>
      [] shape = "image_text" -> <<ImageItem, TextItem(t)>>
      [] shape = "empty" -> <<>>
      [] shape = "image" -> <<ImageItem>>
      [] shape = "no_content" -> NoContent
      [] shape = "not_a_list" -> NotAList
      [] shape = "null_reply" -> NullReply

----------------------------------------------------------------------------
(* Pure functions of the broker *)

RECURSIVE JSONFields(_)
JSONFields(a) ==
    IF a = <<>> THEN <<>>
    ELSE << a[1][1], ":", a[1][2] >>
         \o (IF Len(a) > 1 THEN <<",">> ELSE <<>>)
         \o JSONFields(Tail(a))

\* JSON.stringify(args): the fields in the object's own order
JSONStringify(a) == <<"{">> \o JSONFields(a) \o <<"}">>

\* variant: the key leaves the caller out
cacheKeyNoUser(userId, toolName, args) ==
    <<"", ":", toolName, ":">> \o JSONStringify(args)

\* `${userId}:${toolName}:${JSON.stringify(args)}`
cacheKey(userId, toolName, args) ==
    <<userId, ":", toolName, ":">> \o JSONStringify(args)

KeyUser(k) == k[1]
KeyTool(k) == k[3]

\* variant: the tool name is not looked at
IsCacheableAnyTool(useCache, toolName) == useCache

IsCacheable(useCache, toolName) ==
    useCache /\ (toolName = "list_messages" \/ toolName = "search_emails")

\* searchCache is a Map: a sequence of entries in key-insertion order
CacheKeys(cache) == { cache[n].key : n \in 1..Len(cache) }
CacheHas(cache, k) == \E n \in 1..Len(cache) : cache[n].key = k
CacheIndex(cache, k) == CHOOSE n \in 1..Len(cache) : cache[n].key = k
CacheGet(cache, k) == cache[CacheIndex(cache, k)]

\* variant: the age test is inverted
CacheHitInverted(cache, k, t) ==
    CacheHas(cache, k) /\ t - CacheGet(cache, k).timestamp >= CACHE_TTL

\* variant: an entry aged exactly CACHE_TTL still counts
CacheHitAtTTL(cache, k, t) ==
    CacheHas(cache, k) /\ t - CacheGet(cache, k).timestamp <= CACHE_TTL

\* cached && Date.now() - cached.timestamp < CACHE_TTL
CacheHit(cache, k, t) ==
    CacheHas(cache, k) /\ t - CacheGet(cache, k).timestamp < CACHE_TTL

\* Map.set: a present key keeps its position, a new key goes last
MapSet(cache, k, r, t) ==
    LET e == [key |-> k, result |-> r, timestamp |-> t]
    IN IF CacheHas(cache, k)
       THEN [cache EXCEPT ![CacheIndex(cache, k)] = e]
       ELSE Append(cache, e)

\* variant: the size limit is tested one entry too late
LimitCacheSizeLate(cache) ==
    IF Len(cache) > CacheCapacity + 1 THEN Tail(cache) ELSE cache

\* if (searchCache.size > 100) delete the first key of the Map
LimitCacheSize(cache) ==
    IF Len(cache) > CacheCapacity THEN Tail(cache) ELSE cache

CacheStore(cache, k, r, t) == LimitCacheSize(MapSet(cache, k, r, t))

\* first item text-typed ? its text : JSON.stringify(content)
\* JSON.stringify(undefined, null, 2) is undefined, not a string
ExtractText(content) ==
    IF content = NoContent THEN Undefined
    ELSE IF content # NotAList /\ Len(content) >= 1 /\ content[1].type = "text"
    THEN content[1].text
    ELSE [type |-> "dump", content |-> content]

\* the text items of the content joined, else JSON.stringify(result)
ExaExtractText(content) ==
    LET texts == SelectSeq(content, LAMBDA c : c.type = "text")
    IN IF texts # <<>>
       THEN [type |-> "joined", content |-> texts]
       ELSE [type |-> "dump", content |-> content]

RECURSIVE Pow2(_)
Pow2(n) == IF n = 0 THEN 1 ELSE 2 * Pow2(n - 1)

\* Math.pow(2, attempt) * 1000
BackoffDelay(attempt) == Pow2(attempt) * BackoffBase

EnvVars == {"SMITHERY_API_KEY", "GOOGLE_CLIENT_ID", "GOOGLE_CLIENT_SECRET"}

----------------------------------------------------------------------------
VARIABLES
    now,             \* Date.now()
    env,             \* the process.env variables that are set
    gmailTokens,     \* credential store: user -> Gmail refresh token
    calendarTokens,  \* credential store: user -> Calendar refresh token
    searchCache,     \* the module-level Map of gmail.ts
    inv,             \* the invocations: locals and position of each
    faults,          \* failures the environment may still inject
    shadowCache,     \* searchCache of a second run, for comparing two runs
    niLast,          \* the latest call of the compared runs and its results
    late,            \* operations a timeout abandoned, timers that outlived
                     \* their attempt: still running, or settled unawaited
    search,          \* the running search tool: its locals and position
    history,         \* the search history store: the rows appended
    applied,         \* the latest application of a pure function of the
                     \* broker: the function, its input, its outcome
    service,         \* an SDK service instance (GmailService, ExaService):
                     \* its fields, the clients it created, its calls in flight
    provider         \* MCPProvider: connectedServers, the connectToServer
                     \* calls in flight

\* no function has been applied yet
NotApplied == [fn |-> "", input |-> <<>>, out |-> <<>>]

\* a search tool that is not running
IdleSearch ==
    [ pc |-> "idle", tool |-> "", userId |-> "", query |-> "",
      searchArgs |-> <<>>, startTime |-> 0, executionTime |-> 0,
      result |-> NoText, parsed |-> "", returned |-> NoText,
      error |-> NoError,
      saveFailed |-> FALSE,    \* saveGmailSearchHistory rejected
      rows |-> 0,              \* rows this invocation has appended
      emails |-> <<>>,         \* parsed.messages: the message ids
      entries |-> <<>> ]       \* the entries written so far

\* the calls of connect() that may be in flight together
ConnectCalls == {1, 2}

\* a service that was just constructed; 0 stands for null
IdleService ==
    [ client |-> 0, transport |-> 0, isConnected |-> FALSE,
      clients |-> <<>>,                    \* state of every Client created
      connects |-> [c \in ConnectCalls |-> 0], \* the client each call awaits
      closing |-> 0,                       \* the client disconnect() awaits
      disconnected |-> FALSE,              \* disconnect() was called
      last |-> <<"new", "">> ]             \* the latest step and its outcome

\* the provider after mount, nothing stored
IdleProvider ==
    [ connectedServers |-> <<>>,
      pending |-> <<>>,                    \* connectToServer calls awaiting
      calls |-> 0 ]                        \* connectToServer calls so far

twin == <<shadowCache, niLast, late, search, history, applied, service, provider>>
vars == <<now, env, gmailTokens, calendarTokens, searchCache, inv, faults,
          shadowCache, niLast, late, search, history, applied, service,
          provider>>

NoLate == [flying |-> {}, landed |-> {}]

IdleInv ==
    [ pc |-> "idle", kind |-> "none", userId |-> "", toolName |-> "",
      args |-> <<>>, useCache |-> FALSE, retries |-> 0,
      refreshToken |-> NoToken, attempt |-> 0,
      lastError |-> NoError, pending |-> NoError,
      reply |-> NoReply, result |-> NoText, error |-> NoError,
      \* observation of the run
      sessions |-> <<>>,       \* close() calls per session created
      calls |-> 0,             \* callTool requests issued
      delays |-> <<>>,         \* backoff sleeps taken
      replyAttempt |-> -1,     \* attempt whose callTool was answered
      hit |-> FALSE,           \* answered from searchCache
      credRead |-> FALSE,      \* the credential store was read
      swallowed |-> 0,         \* close errors swallowed in the catch block
      noToken |-> FALSE,       \* no stored token from start to now
      liveAtStart |-> FALSE,   \* an unexpired entry was cached at start
      armedFor |-> 0,          \* time since the attempt's timer was armed
      callFor |-> 0,           \* time since the callTool step started
      startedAt |-> 0 ]        \* Date.now() when the call started

NoCall == [userId |-> "", toolName |-> "", args |-> <<>>,
           result |-> NoText, shadowResult |-> NoText]

FillerEntry(n) ==
    [ key |-> cacheKey(BackgroundUser, "list_messages", FillerArgs(n)),
      result |-> RemoteText(BackgroundUser, "list_messages", FillerArgs(n), 0),
      timestamp |-> 0 ]
Fillers(n) == [ m \in 1..n |-> FillerEntry(m) ]
HeadEntry ==
    [ key |-> cacheKey("u1", "list_messages", ArgsQ1),
      result |-> RemoteText("u1", "list_messages", ArgsQ1, 0),
      timestamp |-> 0 ]

\* the cache after earlier searches filled it to capacity
FullCache == <<HeadEntry>> \o Fillers(CacheCapacity - 1)

AllConnected == [u \in Users |-> TokenOf(u)]
NoneConnected == [u \in Users |-> NoToken]

\* one caller, one invocation: the retry loop under failures
Init ==
    /\ now = 0
    /\ env \in { EnvVars, EnvVars \ {"SMITHERY_API_KEY"} }
    /\ gmailTokens \in {AllConnected, NoneConnected}
    /\ calendarTokens = gmailTokens
    /\ searchCache = <<>>
    /\ inv = [i \in InvIds |-> IdleInv]
    /\ faults = MaxFaults
    /\ shadowCache = <<>>
    /\ niLast = NoCall
    /\ late = NoLate
    /\ search = IdleSearch
    /\ history = <<>>
    /\ applied = NotApplied
    /\ service = IdleService
    /\ provider = IdleProvider

\* two callers, two invocations that may overlap: the shared cache
InitCache ==
    /\ now = 0
    /\ env = EnvVars
    /\ gmailTokens = AllConnected
    /\ calendarTokens = AllConnected
    /\ searchCache \in { <<>>, FullCache }
    /\ inv = [i \in InvIds |-> IdleInv]
    /\ faults = MaxCacheFaults
    /\ shadowCache = <<>>
    /\ niLast = NoCall
    /\ late = NoLate
    /\ search = IdleSearch
    /\ history = <<>>
    /\ applied = NotApplied
    /\ service = IdleService
    /\ provider = IdleProvider

----------------------------------------------------------------------------
(* Observation helpers *)

\* the spec's "live entry": stored under the call's key less than a TTL ago
LiveEntry(useCache, userId, toolName, args) ==
    /\ useCache
    /\ toolName \in CacheableTools
    /\ \E n \in 1..Len(searchCache) :
        /\ searchCache[n].key = cacheKey(userId, toolName, args)
        /\ searchCache[n].timestamp + CACHE_TTL > now

Finished(s) == s.pc \in {"done", "failed"}

\* variant: the client of the previous attempt is used again
BeginAttemptReuse(s) ==
    [s EXCEPT !.pc = "connecting",
              !.sessions = IF @ = <<>> THEN <<0>> ELSE @]

\* new StreamableHTTPClientTransport + new Client, timer armed, connect called
BeginAttempt(s) ==
    [s EXCEPT !.pc = "connecting", !.sessions = Append(@, 0),
              !.armedFor = 0]

\* client.close() is called on the session of the current attempt
InvokeClose(s) ==
    [s EXCEPT !.sessions = [@ EXCEPT ![Len(@)] = @ + 1]]

\* inner catch of the attempt: close the client, then rethrow the error
EnterCatch(s, err) ==
    [InvokeClose(s) EXCEPT !.pc = "closingAfterError", !.pending = err]

\* variant: only the first error is kept
RecordFailureKeepFirst(s) ==
    LET r == [s EXCEPT !.lastError =
                            IF @ = NoError THEN s.pending ELSE @,
                       !.pending = NoError]
    IN IF s.attempt < s.retries
       THEN [r EXCEPT !.pc = "sleeping",
                      !.delays = Append(@, BackoffDelay(s.attempt))]
       ELSE [r EXCEPT !.pc = "failed", !.error = r.lastError]

\* outer catch of the attempt: record the error, back off or give up
RecordFailure(s) ==
    LET r == [s EXCEPT !.lastError = s.pending,
                       !.pending = NoError]
    IN IF s.attempt < s.retries
       THEN [r EXCEPT !.pc = "sleeping",
                      !.delays = Append(@, BackoffDelay(s.attempt))]
       ELSE [r EXCEPT !.pc = "failed", !.error = r.lastError]

----------------------------------------------------------------------------
(* executeGmailToolEnhanced *)

\* variant: a hit stores the entry again, with the time of the hit
GmailStartRefreshing(i, u, t, a, uc, r) ==
    /\ inv[i].pc = "idle"
    /\ LET k == cacheKey(u, t, a)
           hit == IsCacheable(uc, t) /\ CacheHit(searchCache, k, now)
           s == [IdleInv EXCEPT !.kind = "gmail", !.userId = u,
                                !.toolName = t, !.args = a,
                                !.useCache = uc, !.retries = r,
                                !.startedAt = IF IsCacheable(uc, t) THEN now ELSE 0,
                                !.noToken = (gmailTokens[u] = NoToken),
                                !.liveAtStart = LiveEntry(uc, u, t, a)]
       IN /\ inv' = [inv EXCEPT ![i] =
                IF hit
                THEN [s EXCEPT !.pc = "done", !.hit = TRUE,
                               !.result = CacheGet(searchCache, k).result]
                ELSE IF env # EnvVars
                THEN [s EXCEPT !.pc = "failed", !.error = ConfigMissing("gmail")]
                ELSE [s EXCEPT !.pc = "lookup"]]
          /\ searchCache' =
                IF hit THEN CacheStore(searchCache, k,
                                       CacheGet(searchCache, k).result, now)
                       ELSE searchCache
    /\ UNCHANGED <<twin, now, env, gmailTokens, calendarTokens, faults>>

\* variant: a token remembered from an earlier call is used, no lookup
GmailStartRememberedToken(i, u, t, a, uc, r) ==
    /\ inv[i].pc = "idle"
    /\ LET k == cacheKey(u, t, a)
           s == [IdleInv EXCEPT !.kind = "gmail", !.userId = u,
                                !.toolName = t, !.args = a,
                                !.useCache = uc, !.retries = r,
                                !.startedAt = IF IsCacheable(uc, t) THEN now ELSE 0,
                                !.noToken = (gmailTokens[u] = NoToken),
                                !.liveAtStart = LiveEntry(uc, u, t, a)]
       IN inv' = [inv EXCEPT ![i] =
                IF IsCacheable(uc, t) /\ CacheHit(searchCache, k, now)
                THEN [s EXCEPT !.pc = "done", !.hit = TRUE,
                               !.result = CacheGet(searchCache, k).result]
                ELSE IF env # EnvVars
                THEN [s EXCEPT !.pc = "failed", !.error = ConfigMissing("gmail")]
                ELSE BeginAttempt([s EXCEPT !.refreshToken = TokenOf(u)])]
    /\ UNCHANGED <<twin, now, env, gmailTokens, calendarTokens, searchCache, faults>>

\* entry up to the await of getUserGmailToken
GmailStart(i, u, t, a, uc, r) ==
    /\ inv[i].pc = "idle"
    /\ LET k == cacheKey(u, t, a)
           s == [IdleInv EXCEPT !.kind = "gmail", !.userId = u,
                                !.toolName = t, !.args = a,
                                !.useCache = uc, !.retries = r,
                                !.startedAt = IF IsCacheable(uc, t) THEN now ELSE 0,
                                !.noToken = (gmailTokens[u] = NoToken),
                                !.liveAtStart = LiveEntry(uc, u, t, a)]
       IN inv' = [inv EXCEPT ![i] =
                IF IsCacheable(uc, t) /\ CacheHit(searchCache, k, now)
                THEN [s EXCEPT !.pc = "done", !.hit = TRUE,
                               !.result = CacheGet(searchCache, k).result]
                ELSE IF env # EnvVars
                THEN [s EXCEPT !.pc = "failed", !.error = ConfigMissing("gmail")]
                ELSE [s EXCEPT !.pc = "lookup"]]
    /\ UNCHANGED <<twin, now, env, gmailTokens, calendarTokens, searchCache, faults>>

\* variant: the attempt starts without testing the token
GmailLookupUnchecked(i) ==
    /\ inv[i].pc = "lookup"
    /\ inv[i].kind = "gmail"
    /\ inv' = [inv EXCEPT ![i] =
            BeginAttempt([@ EXCEPT !.credRead = TRUE,
                                   !.refreshToken = TokenOf(inv[i].userId)])]
    /\ UNCHANGED <<twin, now, env, gmailTokens, calendarTokens, searchCache, faults>>

\* getUserGmailToken answers; with a token the first attempt starts
GmailLookup(i) ==
    /\ inv[i].pc = "lookup"
    /\ inv[i].kind = "gmail"
    /\ LET s == [inv[i] EXCEPT !.credRead = TRUE]
           tk == gmailTokens[s.userId]
       IN inv' = [inv EXCEPT ![i] =
                IF tk = NoToken
                THEN [s EXCEPT !.pc = "failed", !.error = NotConnected("gmail")]
                ELSE BeginAttempt([s EXCEPT !.refreshToken = tk,
                                            !.attempt = 0,
                                            !.lastError = NoError])]
    /\ UNCHANGED <<twin, now, env, gmailTokens, calendarTokens, searchCache, faults>>

\* client.connect resolves first: callTool is issued
ConnectOk(i) ==
    /\ inv[i].pc = "connecting"
    /\ inv' = [inv EXCEPT ![i] = [@ EXCEPT !.pc = "calling", !.calls = @ + 1,
                                           !.callFor = 0]]
    /\ UNCHANGED <<twin, now, env, gmailTokens, calendarTokens, searchCache, faults>>

\* client.connect rejects first
GmailConnectFail(i) ==
    /\ inv[i].pc = "connecting"
    /\ inv[i].kind = "gmail"
    /\ faults > 0
    /\ faults' = faults - 1
    /\ inv' = [inv EXCEPT ![i] =
            EnterCatch(@, AttemptError("remote", "connect", inv[i].attempt))]
    /\ UNCHANGED <<twin, now, env, gmailTokens, calendarTokens, searchCache>>

\* the operation a lost race leaves running: nothing awaits it any more
Abandoned(i) ==
    [id |-> i, attempt |-> inv[i].attempt,
     what |-> IF inv[i].pc = "connecting" THEN "connect" ELSE "call"]

\* variant: the timer bounds connect only
GmailTimeoutConnectOnly(i) ==
    /\ inv[i].pc = "connecting"
    /\ inv[i].kind = "gmail"
    /\ faults > 0
    /\ faults' = faults - 1
    /\ inv' = [inv EXCEPT ![i] =
            EnterCatch(@, AttemptError("timeout", inv[i].pc, inv[i].attempt))]
    /\ late' = [late EXCEPT !.flying = @ \cup {Abandoned(i)}]
    /\ UNCHANGED <<service, provider, applied, search, history, shadowCache, niLast, now, env, gmailTokens, calendarTokens,
                   searchCache>>

\* timeoutPromise rejects while connect or callTool is awaited: the race is
\* lost, the awaited operation goes on unawaited
GmailTimeout(i) ==
    /\ inv[i].pc \in {"connecting", "calling"}
    /\ inv[i].kind = "gmail"
    /\ faults > 0
    /\ faults' = faults - 1
    /\ inv' = [inv EXCEPT ![i] =
            EnterCatch(@, AttemptError("timeout", inv[i].pc, inv[i].attempt))]
    /\ late' = [late EXCEPT !.flying = @ \cup {Abandoned(i)}]
    /\ UNCHANGED <<service, provider, applied, search, history, shadowCache, niLast, now, env, gmailTokens, calendarTokens,
                   searchCache>>

\* client.callTool rejects first
GmailCallFail(i) ==
    /\ inv[i].pc = "calling"
    /\ inv[i].kind = "gmail"
    /\ faults > 0
    /\ faults' = faults - 1
    /\ inv' = [inv EXCEPT ![i] =
            EnterCatch(@, AttemptError("remote", "call", inv[i].attempt))]
    /\ UNCHANGED <<twin, now, env, gmailTokens, calendarTokens, searchCache>>

\* client.callTool resolves first with a reply: close is awaited
CallOk(i, shape) ==
    /\ inv[i].pc = "calling"
    /\ inv' = [inv EXCEPT ![i] =
            [InvokeClose(@) EXCEPT
                !.pc = "closingAfterSuccess",
                !.reply = Content(shape,
                            RemoteText(TokenOwner(inv[i].refreshToken),
                                       inv[i].toolName, inv[i].args, now)),
                !.replyAttempt = inv[i].attempt]]
    /\ UNCHANGED <<twin, now, env, gmailTokens, calendarTokens, searchCache, faults>>

\* close after the reply resolves: extract the text, cache it, return it
GmailCloseAfterReply(i) ==
    /\ inv[i].pc = "closingAfterSuccess"
    /\ inv[i].kind = "gmail"
    /\ LET s == inv[i]
           resultText == ExtractText(s.reply)
       IN IF s.reply = NullReply
          THEN \* result.content throws a TypeError inside the inner try
               /\ inv' = [inv EXCEPT ![i] =
                    EnterCatch(s, AttemptError("type_error", "extract",
                                               s.attempt))]
               /\ searchCache' = searchCache
          ELSE /\ inv' = [inv EXCEPT ![i] =
                    [s EXCEPT !.pc = "done", !.result = resultText]]
               /\ searchCache' =
                    IF IsCacheable(s.useCache, s.toolName)
                    THEN CacheStore(searchCache,
                                    cacheKey(s.userId, s.toolName, s.args),
                                    resultText, now)
                    ELSE searchCache
    /\ UNCHANGED <<twin, now, env, gmailTokens, calendarTokens, faults>>

\* variant: the text is cached before the close that rejects
GmailCloseAfterReplyThrowsStored(i) ==
    /\ inv[i].pc = "closingAfterSuccess"
    /\ inv[i].kind = "gmail"
    /\ faults > 0
    /\ faults' = faults - 1
    /\ inv' = [inv EXCEPT ![i] =
            EnterCatch(@, AttemptError("close", "close", inv[i].attempt))]
    /\ searchCache' =
            IF IsCacheable(inv[i].useCache, inv[i].toolName)
            THEN CacheStore(searchCache,
                            cacheKey(inv[i].userId, inv[i].toolName,
                                     inv[i].args),
                            ExtractText(inv[i].reply), now)
            ELSE searchCache
    /\ UNCHANGED <<twin, now, env, gmailTokens, calendarTokens>>

\* close after the reply rejects: it is caught like a failed attempt
GmailCloseAfterReplyThrows(i) ==
    /\ inv[i].pc = "closingAfterSuccess"
    /\ inv[i].kind = "gmail"
    /\ faults > 0
    /\ faults' = faults - 1
    /\ inv' = [inv EXCEPT ![i] =
            EnterCatch(@, AttemptError("close", "close", inv[i].attempt))]
    /\ UNCHANGED <<twin, now, env, gmailTokens, calendarTokens, searchCache>>

\* variant: a close error in the catch block replaces the attempt's error
GmailCloseAfterErrorMasks(i, closeThrows) ==
    /\ inv[i].pc = "closingAfterError"
    /\ inv[i].kind = "gmail"
    /\ closeThrows => faults > 0
    /\ faults' = IF closeThrows THEN faults - 1 ELSE faults
    /\ inv' = [inv EXCEPT ![i] =
            RecordFailure([@ EXCEPT
                !.swallowed = IF closeThrows THEN @ + 1 ELSE @,
                !.pending = IF closeThrows
                            THEN AttemptError("close", "close", inv[i].attempt)
                            ELSE @])]
    /\ UNCHANGED <<twin, now, env, gmailTokens, calendarTokens, searchCache>>

\* close in the catch block settles (a rejection is swallowed), the
\* attempt's error is rethrown and recorded
GmailCloseAfterError(i, closeThrows) ==
    /\ inv[i].pc = "closingAfterError"
    /\ inv[i].kind = "gmail"
    /\ closeThrows => faults > 0
    /\ faults' = IF closeThrows THEN faults - 1 ELSE faults
    /\ inv' = [inv EXCEPT ![i] =
            RecordFailure([@ EXCEPT !.swallowed =
                                    IF closeThrows THEN @ + 1 ELSE @])]
    /\ UNCHANGED <<twin, now, env, gmailTokens, calendarTokens, searchCache>>

\* what settled unawaited, and where its invocation was at that moment
Landed(x) ==
    [id |-> x.id, attempt |-> x.attempt, what |-> x.what,
     inAttempt |-> IF inv[x.id].pc \in {"connecting", "calling"}
                   THEN inv[x.id].attempt ELSE -1]

\* variant: a late callTool reply is taken as the invocation's result
GmailLateSettlesAdopted(x) ==
    /\ x \in late.flying
    /\ late' = [flying |-> late.flying \ {x},
                landed |-> late.landed \cup {Landed(x)}]
    /\ inv' = [inv EXCEPT ![x.id] =
            IF x.what = "call" /\ ~Finished(@)
            THEN [@ EXCEPT !.pc = "done",
                           !.result = RemoteText(inv[x.id].userId,
                                                 inv[x.id].toolName,
                                                 inv[x.id].args, now)]
            ELSE @]
    /\ UNCHANGED <<service, provider, applied, search, history, shadowCache, niLast, now, env, gmailTokens, calendarTokens,
                   searchCache, faults>>

\* an abandoned connect or callTool settles (resolves or rejects): the race
\* it was in is already settled, no code runs
GmailLateSettles(x) ==
    /\ x \in late.flying
    /\ late' = [flying |-> late.flying \ {x},
                landed |-> late.landed \cup {Landed(x)}]
    /\ UNCHANGED <<service, provider, applied, search, history, shadowCache, niLast, now, env, gmailTokens, calendarTokens,
                   searchCache, inv, faults>>

\* both races of attempt k are over and its timer has not fired yet
TimerOutlives(i, k) ==
    /\ inv[i].kind = "gmail"
    /\ k < Len(inv[i].sessions)
    /\ \/ k < inv[i].attempt
       \/ inv[i].pc \in {"closingAfterSuccess", "closingAfterError",
                          "sleeping", "done", "failed"}
    /\ \A x \in late.flying \cup late.landed :
            ~(x.id = i /\ x.attempt = k)

\* the setTimeout of an attempt that is over fires: timeoutPromise of that
\* attempt rejects, its races are settled, no code runs
GmailStaleTimerFires(i, k) ==
    /\ TimerOutlives(i, k)
    /\ late' = [late EXCEPT !.landed = @ \cup
                    {Landed([id |-> i, attempt |-> k, what |-> "timer"])}]
    /\ UNCHANGED <<service, provider, applied, search, history, shadowCache, niLast, now, env, gmailTokens, calendarTokens,
                   searchCache, inv, faults>>

\* the backoff sleep ends: next attempt
GmailSleepDone(i) ==
    /\ inv[i].pc = "sleeping"
    /\ inv' = [inv EXCEPT ![i] =
            BeginAttempt([@ EXCEPT !.attempt = @ + 1])]
    /\ UNCHANGED <<twin, now, env, gmailTokens, calendarTokens, searchCache, faults>>

\* the caller has taken the result or the failure: the slot is free again
Return(i) ==
    /\ Finished(inv[i])
    /\ inv' = [inv EXCEPT ![i] = IdleInv]
    /\ UNCHANGED <<twin, now, env, gmailTokens, calendarTokens, searchCache, faults>>

\* searchCache.clear()
clearGmailSearchCache ==
    /\ searchCache # <<>>
    /\ searchCache' = <<>>
    /\ UNCHANGED <<twin, now, env, gmailTokens, calendarTokens, inv, faults>>

----------------------------------------------------------------------------
(* executeGoogleCalendarTool *)

\* variant: only the Smithery key is tested
CalendarStartKeyOnly(i, u, t, a) ==
    /\ inv[i].pc = "idle"
    /\ LET s == [IdleInv EXCEPT !.kind = "calendar", !.userId = u,
                                !.toolName = t, !.args = a,
                                !.startedAt = now,
                                !.noToken = (calendarTokens[u] = NoToken)]
       IN inv' = [inv EXCEPT ![i] =
                IF "SMITHERY_API_KEY" \notin env
                THEN [s EXCEPT !.pc = "failed", !.error = ConfigMissing("smithery")]
                ELSE [s EXCEPT !.pc = "lookup"]]
    /\ UNCHANGED <<twin, now, env, gmailTokens, calendarTokens, searchCache, faults>>

\* entry up to the await of getUserGoogleCalendarToken
CalendarStart(i, u, t, a) ==
    /\ inv[i].pc = "idle"
    /\ LET s == [IdleInv EXCEPT !.kind = "calendar", !.userId = u,
                                !.toolName = t, !.args = a,
                                !.startedAt = now,
                                !.noToken = (calendarTokens[u] = NoToken)]
       IN inv' = [inv EXCEPT ![i] =
                IF "SMITHERY_API_KEY" \notin env
                THEN [s EXCEPT !.pc = "failed", !.error = ConfigMissing("smithery")]
                ELSE IF "GOOGLE_CLIENT_ID" \notin env
                        \/ "GOOGLE_CLIENT_SECRET" \notin env
                THEN [s EXCEPT !.pc = "failed", !.error = ConfigMissing("google_oauth")]
                ELSE [s EXCEPT !.pc = "lookup"]]
    /\ UNCHANGED <<twin, now, env, gmailTokens, calendarTokens, searchCache, faults>>

CalendarLookup(i) ==
    /\ inv[i].pc = "lookup"
    /\ inv[i].kind = "calendar"
    /\ LET s == [inv[i] EXCEPT !.credRead = TRUE]
           tk == calendarTokens[s.userId]
       IN inv' = [inv EXCEPT ![i] =
                IF tk = NoToken
                THEN [s EXCEPT !.pc = "failed", !.error = NotConnected("calendar")]
                ELSE BeginAttempt([s EXCEPT !.refreshToken = tk])]
    /\ UNCHANGED <<twin, now, env, gmailTokens, calendarTokens, searchCache, faults>>

\* connect or callTool rejects: logged and rethrown, nothing else
CalendarStepFail(i) ==
    /\ inv[i].pc \in {"connecting", "calling"}
    /\ inv[i].kind = "calendar"
    /\ faults > 0
    /\ faults' = faults - 1
    /\ inv' = [inv EXCEPT ![i] =
            [@ EXCEPT !.pc = "failed",
                      !.error = AttemptError("remote", inv[i].pc, 0)]]
    /\ UNCHANGED <<twin, now, env, gmailTokens, calendarTokens, searchCache>>

CalendarCloseAfterReply(i) ==
    /\ inv[i].pc = "closingAfterSuccess"
    /\ inv[i].kind = "calendar"
    /\ inv' = [inv EXCEPT ![i] =
            [@ EXCEPT !.pc = "done", !.result = ExtractText(inv[i].reply)]]
    /\ UNCHANGED <<twin, now, env, gmailTokens, calendarTokens, searchCache, faults>>

CalendarCloseAfterReplyThrows(i) ==
    /\ inv[i].pc = "closingAfterSuccess"
    /\ inv[i].kind = "calendar"
    /\ faults > 0
    /\ faults' = faults - 1
    /\ inv' = [inv EXCEPT ![i] =
            [@ EXCEPT !.pc = "failed",
                      !.error = AttemptError("close", "close", 0)]]
    /\ UNCHANGED <<twin, now, env, gmailTokens, calendarTokens, searchCache>>

----------------------------------------------------------------------------
(* executeExaTool, and the same steps inlined in exaSearch, exaGetContents *)

\* entry: the key is tested, the client created and connect awaited
ExaStart(i, t, a) ==
    /\ inv[i].pc = "idle"
    /\ LET s == [IdleInv EXCEPT !.kind = "exa", !.toolName = t, !.args = a]
       IN inv' = [inv EXCEPT ![i] =
                IF "SMITHERY_API_KEY" \notin env
                THEN [s EXCEPT !.pc = "failed", !.error = ConfigMissing("smithery")]
                ELSE BeginAttempt(s)]
    /\ UNCHANGED <<twin, now, env, gmailTokens, calendarTokens, searchCache, faults>>

\* connect rejects: it is awaited outside the try, nothing is closed
ExaConnectFail(i) ==
    /\ inv[i].pc = "connecting"
    /\ inv[i].kind = "exa"
    /\ faults > 0
    /\ faults' = faults - 1
    /\ inv' = [inv EXCEPT ![i] =
            [@ EXCEPT !.pc = "failed",
                      !.error = AttemptError("remote", "connect", 0)]]
    /\ UNCHANGED <<twin, now, env, gmailTokens, calendarTokens, searchCache>>

\* callTool rejects: the catch closes the client
ExaCallFail(i) ==
    /\ inv[i].pc = "calling"
    /\ inv[i].kind = "exa"
    /\ faults > 0
    /\ faults' = faults - 1
    /\ inv' = [inv EXCEPT ![i] =
            EnterCatch(@, AttemptError("remote", "call", 0))]
    /\ UNCHANGED <<twin, now, env, gmailTokens, calendarTokens, searchCache>>

\* close after the reply resolves: the text items are returned
ExaCloseAfterReply(i) ==
    /\ inv[i].pc = "closingAfterSuccess"
    /\ inv[i].kind = "exa"
    /\ inv' = [inv EXCEPT ![i] =
            [@ EXCEPT !.pc = "done", !.result = ExaExtractText(inv[i].reply)]]
    /\ UNCHANGED <<twin, now, env, gmailTokens, calendarTokens, searchCache, faults>>

\* close after the reply rejects inside the try: the catch closes again
ExaCloseAfterReplyThrows(i) ==
    /\ inv[i].pc = "closingAfterSuccess"
    /\ inv[i].kind = "exa"
    /\ faults > 0
    /\ faults' = faults - 1
    /\ inv' = [inv EXCEPT ![i] =
            EnterCatch(@, AttemptError("close", "close", 0))]
    /\ UNCHANGED <<twin, now, env, gmailTokens, calendarTokens, searchCache>>

\* close in the catch settles: the caught error is rethrown wrapped; a
\* rejection of this close is not caught and is thrown instead
ExaCloseAfterError(i, closeThrows) ==
    /\ inv[i].pc = "closingAfterError"
    /\ inv[i].kind = "exa"
    /\ closeThrows => faults > 0
    /\ faults' = IF closeThrows THEN faults - 1 ELSE faults
    /\ inv' = [inv EXCEPT ![i] =
            [@ EXCEPT !.pc = "failed",
                      !.pending = NoError,
                      !.error = IF closeThrows
                                THEN AttemptError("close", "close", 0)
                                ELSE inv[i].pending]]
    /\ UNCHANGED <<twin, now, env, gmailTokens, calendarTokens, searchCache>>

----------------------------------------------------------------------------
(* Credential store, as written by the auth routes *)

\* an invocation in flight sees that its caller's token is stored
SeesToken(k, u) ==
    [i \in InvIds |->
        IF inv[i].kind = k /\ inv[i].userId = u /\ ~Finished(inv[i])
        THEN [inv[i] EXCEPT !.noToken = FALSE]
        ELSE inv[i]]

\* GET with a code whose exchange returned a refresh_token
GmailAuthCallback(u) ==
    /\ gmailTokens[u] = NoToken
    /\ gmailTokens' = [gmailTokens EXCEPT ![u] = TokenOf(u)]
    /\ inv' = SeesToken("gmail", u)
    /\ UNCHANGED <<twin, now, env, calendarTokens, searchCache, faults>>

\* POST: updateUserGmailToken(session.user.id, null)
GmailDisconnect(u) ==
    /\ gmailTokens[u] # NoToken
    /\ gmailTokens' = [gmailTokens EXCEPT ![u] = NoToken]
    /\ UNCHANGED <<twin, now, env, calendarTokens, searchCache, inv, faults>>

CalendarAuthCallback(u) ==
    /\ calendarTokens[u] = NoToken
    /\ calendarTokens' = [calendarTokens EXCEPT ![u] = TokenOf(u)]
    /\ inv' = SeesToken("calendar", u)
    /\ UNCHANGED <<twin, now, env, gmailTokens, searchCache, faults>>

CalendarDisconnect(u) ==
    /\ calendarTokens[u] # NoToken
    /\ calendarTokens' = [calendarTokens EXCEPT ![u] = NoToken]
    /\ UNCHANGED <<twin, now, env, gmailTokens, searchCache, inv, faults>>

\* time passes
Tick ==
    /\ now < MaxTicks * TickStep
    /\ now' = now + TickStep
    /\ UNCHANGED <<twin, env, gmailTokens, calendarTokens, searchCache, inv, faults>>

----------------------------------------------------------------------------
Next ==
    \/ \E t \in GmailToolNames, uc \in BOOLEAN, r \in 0..MaxRetries :
          GmailStart("A", "u1", t, ArgsQ1, uc, r)
    \/ GmailLookup("A")
    \/ ConnectOk("A")
    \/ GmailConnectFail("A")
    \/ GmailTimeout("A")
    \/ GmailCallFail("A")
    \/ \E sh \in ReplyShapes : CallOk("A", sh)
    \/ GmailCloseAfterReply("A")
    \/ GmailCloseAfterReplyThrows("A")
    \/ \E b \in BOOLEAN : GmailCloseAfterError("A", b)
    \/ GmailSleepDone("A")
    \/ Return("A")
    \/ clearGmailSearchCache
    \/ GmailAuthCallback("u1")
    \/ GmailDisconnect("u1")

Spec == Init /\ [][Next]_vars

\* both executors against the two credential columns: a Gmail invocation in
\* slot "A" and a calendar invocation in slot "B", which may overlap
InitConnect ==
    /\ now = 0
    /\ env \in { EnvVars } \cup { EnvVars \ {v} : v \in EnvVars }
    /\ gmailTokens \in {AllConnected, NoneConnected}
    /\ calendarTokens \in {AllConnected, NoneConnected}
    /\ searchCache = <<>>
    /\ inv = [i \in InvIds |-> IdleInv]
    /\ faults = MaxConnectFaults
    /\ shadowCache = <<>>
    /\ niLast = NoCall
    /\ late = NoLate
    /\ search = IdleSearch
    /\ history = <<>>
    /\ applied = NotApplied
    /\ service = IdleService
    /\ provider = IdleProvider

NextConnect ==
    \/ \E t \in GmailToolNames : GmailStart("A", "u1", t, ArgsQ1, TRUE, 1)
    \/ GmailLookup("A")
    \/ GmailConnectFail("A")
    \/ GmailCloseAfterReply("A")
    \/ GmailCloseAfterError("A", FALSE)
    \/ GmailSleepDone("A")
    \/ \E t \in CalendarToolNames : CalendarStart("B", "u1", t, ArgsQ1)
    \/ CalendarLookup("B")
    \/ CalendarStepFail("B")
    \/ CalendarCloseAfterReply("B")
    \/ CalendarCloseAfterReplyThrows("B")
    \/ \E i \in InvIds : ConnectOk(i)
    \/ \E i \in InvIds : CallOk(i, "text")
    \/ \E i \in InvIds : Return(i)
    \/ GmailAuthCallback("u1")
    \/ GmailDisconnect("u1")
    \/ CalendarAuthCallback("u1")
    \/ CalendarDisconnect("u1")
    \/ Tick

SpecConnect == InitConnect /\ [][NextConnect]_vars

\* the timeout race: the remote may answer late or never.  No other
\* failure is injected and every attempt of every invocation can time out:
\* the timer firings the model allows are never used up.
InitTimeout ==
    /\ now = 0
    /\ env = EnvVars
    /\ gmailTokens = AllConnected
    /\ calendarTokens = AllConnected
    /\ searchCache = <<>>
    /\ inv = [i \in InvIds |-> IdleInv]
    /\ faults = Cardinality(InvIds) * (MaxTimeoutRetries + 1)
    /\ shadowCache = <<>>
    /\ niLast = NoCall
    /\ late = NoLate
    /\ search = IdleSearch
    /\ history = <<>>
    /\ applied = NotApplied
    /\ service = IdleService
    /\ provider = IdleProvider

NextTimeout ==
    \/ \E i \in InvIds, r \in 0..MaxTimeoutRetries :
          GmailStart(i, "u1", "list_messages", ArgsQ1, TRUE, r)
    \/ \E i \in InvIds : GmailLookup(i)
    \/ \E i \in InvIds : ConnectOk(i)
    \/ \E i \in InvIds : GmailTimeout(i)
    \/ \E i \in InvIds : CallOk(i, "text")
    \/ \E i \in InvIds : GmailCloseAfterReply(i)
    \/ \E i \in InvIds : GmailCloseAfterError(i, FALSE)
    \/ \E i \in InvIds : GmailSleepDone(i)
    \/ \E x \in late.flying : GmailLateSettles(x)
    \/ \E i \in InvIds, k \in 0..MaxTimeoutRetries : GmailStaleTimerFires(i, k)

SpecTimeout == InitTimeout /\ [][NextTimeout]_vars

\* one invocation whose timers fire, whose credential lookup returns and
\* whose close completes; nothing is assumed of the remote: connect and
\* callTool may never settle
NextTimeoutOne ==
    \/ \E r \in 0..MaxTimeoutRetries :
          GmailStart("A", "u1", "list_messages", ArgsQ1, TRUE, r)
    \/ GmailLookup("A")
    \/ ConnectOk("A")
    \/ GmailTimeout("A")
    \/ CallOk("A", "text")
    \/ GmailCloseAfterReply("A")
    \/ GmailCloseAfterError("A", FALSE)
    \/ GmailSleepDone("A")
    \/ \E x \in late.flying : GmailLateSettles(x)
    \/ \E k \in 0..MaxTimeoutRetries : GmailStaleTimerFires("A", k)
    \/ Tick

FairTimeout ==
    /\ WF_vars(GmailLookup("A"))
    /\ WF_vars(GmailTimeout("A"))
    /\ WF_vars(GmailCloseAfterReply("A"))
    /\ WF_vars(GmailCloseAfterError("A", FALSE))
    /\ WF_vars(GmailSleepDone("A"))

SpecTimeoutFair == InitTimeout /\ [][NextTimeoutOne]_vars /\ FairTimeout

\* the sessions of the three executors: a Gmail invocation in slot "A", a
\* calendar or an Exa invocation in slot "B"
InitSessions ==
    /\ now = 0
    /\ env = EnvVars
    /\ gmailTokens = AllConnected
    /\ calendarTokens = AllConnected
    /\ searchCache = <<>>
    /\ inv = [i \in InvIds |-> IdleInv]
    /\ faults = MaxSessionFaults
    /\ shadowCache = <<>>
    /\ niLast = NoCall
    /\ late = NoLate
    /\ search = IdleSearch
    /\ history = <<>>
    /\ applied = NotApplied
    /\ service = IdleService
    /\ provider = IdleProvider

NextSessions ==
    \/ \E t \in GmailToolNames, r \in 0..MaxTimeoutRetries :
          GmailStart("A", "u1", t, ArgsQ1, FALSE, r)
    \/ GmailLookup("A")
    \/ GmailConnectFail("A")
    \/ GmailTimeout("A")
    \/ GmailCallFail("A")
    \/ GmailCloseAfterReply("A")
    \/ GmailCloseAfterReplyThrows("A")
    \/ \E b \in BOOLEAN : GmailCloseAfterError("A", b)
    \/ GmailSleepDone("A")
    \/ \E t \in CalendarToolNames : CalendarStart("B", "u1", t, ArgsQ1)
    \/ CalendarLookup("B")
    \/ CalendarStepFail("B")
    \/ CalendarCloseAfterReply("B")
    \/ CalendarCloseAfterReplyThrows("B")
    \/ \E t \in ExaToolNames : ExaStart("B", t, ArgsQ1)
    \/ ExaConnectFail("B")
    \/ ExaCallFail("B")
    \/ ExaCloseAfterReply("B")
    \/ ExaCloseAfterReplyThrows("B")
    \/ \E b \in BOOLEAN : ExaCloseAfterError("B", b)
    \/ \E i \in InvIds : ConnectOk(i)
    \/ \E i \in InvIds, sh \in ReplyShapes : CallOk(i, sh)
    \/ \E i \in InvIds : Return(i)

SpecSessions == InitSessions /\ [][NextSessions]_vars

\* the calendar and Exa executors when every step the code awaits with a
\* bound of its own completes: the credential lookup and close.  Neither
\* executor arms a timer; nothing is assumed of the remote.
NextPlain ==
    \/ \E t \in CalendarToolNames : CalendarStart("A", "u1", t, ArgsQ1)
    \/ CalendarLookup("A")
    \/ CalendarStepFail("A")
    \/ CalendarCloseAfterReply("A")
    \/ CalendarCloseAfterReplyThrows("A")
    \/ \E t \in ExaToolNames : ExaStart("B", t, ArgsQ1)
    \/ ExaConnectFail("B")
    \/ ExaCallFail("B")
    \/ ExaCloseAfterReply("B")
    \/ ExaCloseAfterReplyThrows("B")
    \/ \E b \in BOOLEAN : ExaCloseAfterError("B", b)
    \/ \E i \in InvIds : ConnectOk(i)
    \/ \E i \in InvIds, sh \in ReplyShapes : CallOk(i, sh)

FairPlain ==
    /\ WF_vars(CalendarLookup("A"))
    /\ WF_vars(CalendarCloseAfterReply("A"))
    /\ WF_vars(ExaCloseAfterReply("B"))
    /\ WF_vars(ExaCloseAfterError("B", FALSE))

SpecPlainFair == InitSessions /\ [][NextPlain]_vars /\ FairPlain

NextCache ==
    \/ \E i \in InvIds, u \in Users, t \in GmailToolNames, uc \in BOOLEAN :
          GmailStart(i, u, t, ArgsQ1, uc, 1)
    \/ \E i \in InvIds : GmailLookup(i)
    \/ \E i \in InvIds : ConnectOk(i)
    \/ \E i \in InvIds : GmailCallFail(i)
    \/ \E i \in InvIds : CallOk(i, "text")
    \/ \E i \in InvIds : GmailCloseAfterReply(i)
    \/ \E i \in InvIds : GmailCloseAfterError(i, FALSE)
    \/ \E i \in InvIds : GmailSleepDone(i)
    \/ clearGmailSearchCache
    \/ Tick

SpecCache == InitCache /\ [][NextCache]_vars

----------------------------------------------------------------------------
(* Two runs side by side: the same calls of one caller, with and without   *)
(* the calls of the other callers.  Every call runs to completion, the     *)
(* remote answers at once and, asked the same at the same time, answers    *)
(* the same in both runs.                                                  *)

ObservedUser == "u1"

\* executeGmailToolEnhanced from entry to return when nothing fails
Execute(cache, u, t, a, uc, time) ==
    LET k == cacheKey(u, t, a)
        resultText == ExtractText(Content("text", RemoteText(u, t, a, time)))
    IN IF IsCacheable(uc, t) /\ CacheHit(cache, k, time)
       THEN [cache |-> cache, result |-> CacheGet(cache, k).result]
       ELSE [cache |-> IF IsCacheable(uc, t)
                       THEN CacheStore(cache, k, resultText, time)
                       ELSE cache,
             result |-> resultText]

InitTwin ==
    /\ now = 0
    /\ env = EnvVars
    /\ gmailTokens = AllConnected
    /\ calendarTokens = AllConnected
    /\ searchCache \in { <<>>, FullCache }
    /\ shadowCache = searchCache
    /\ inv = [i \in InvIds |-> IdleInv]
    /\ faults = 0
    /\ niLast = NoCall
    /\ late = NoLate
    /\ search = IdleSearch
    /\ history = <<>>
    /\ applied = NotApplied
    /\ service = IdleService
    /\ provider = IdleProvider

\* a call of the observed caller happens in both runs
ObservedCall(t, uc) ==
    LET r1 == Execute(searchCache, ObservedUser, t, ArgsQ1, uc, now)
        r2 == Execute(shadowCache, ObservedUser, t, ArgsQ1, uc, now)
    IN /\ searchCache' = r1.cache
       /\ shadowCache' = r2.cache
       /\ niLast' = [userId |-> ObservedUser, toolName |-> t, args |-> ArgsQ1,
                     result |-> r1.result, shadowResult |-> r2.result]
       /\ UNCHANGED <<service, provider, now, env, gmailTokens, calendarTokens, inv, faults, late,
                    search, history, applied>>

\* a call of another caller happens in the first run only
OtherCall(u, t, uc) ==
    LET r1 == Execute(searchCache, u, t, ArgsQ1, uc, now)
    IN /\ u # ObservedUser
       /\ searchCache' = r1.cache
       /\ niLast' = [userId |-> u, toolName |-> t, args |-> ArgsQ1,
                     result |-> r1.result, shadowResult |-> NoText]
       /\ UNCHANGED <<service, provider, now, env, gmailTokens, calendarTokens, inv, faults,
                      shadowCache, late, search, history, applied>>

NextTwin ==
    \/ \E t \in GmailToolNames, uc \in BOOLEAN : ObservedCall(t, uc)
    \/ \E u \in Users, t \in GmailToolNames, uc \in BOOLEAN : OtherCall(u, t, uc)
    \/ Tick

SpecTwin == InitTwin /\ [][NextTwin]_vars

----------------------------------------------------------------------------
(* Properties *)

Gmail(i) == inv[i].kind = "gmail"
AttemptOver(i, n) ==
    n < Len(inv[i].sessions) \/ inv[i].pc \in {"sleeping", "done", "failed"}

\* the remote texts a result carries
TextsIn(r) ==
    IF r.type = "text" THEN {r}
    ELSE IF r.type = "dump"
    THEN { r.content[n].text :
              n \in { m \in 1..Len(r.content) : r.content[m].type = "text" } }
    ELSE {}

\* C1: in executeGmailToolEnhanced close is invoked exactly once on the
\* session of every attempt, whatever the outcome of connect, callTool and
\* close: never twice, and once when the attempt is over.
C1_CloseExactlyOncePerSession ==
    \A i \in InvIds : Gmail(i) =>
        \A n \in 1..Len(inv[i].sessions) :
            /\ inv[i].sessions[n] <= 1
            /\ AttemptOver(i, n) => inv[i].sessions[n] = 1

\* C2: when every attempt fails, the invocation made retries + 1 attempts,
\* slept retries times (never after the last failure) and fails with the
\* error of the last attempt.
C2_ExhaustedAfterAllAttempts ==
    \A i \in InvIds : Gmail(i) =>
        /\ inv[i].pc = "sleeping" => inv[i].attempt < inv[i].retries
        /\ (inv[i].pc = "failed" /\ inv[i].sessions # <<>>) =>
              /\ Len(inv[i].sessions) = inv[i].retries + 1
              /\ inv[i].attempt = inv[i].retries
              /\ Len(inv[i].delays) = inv[i].retries
              /\ inv[i].error = inv[i].lastError
              /\ inv[i].error.attempt = inv[i].retries

C2_Witness ==
    \E i \in InvIds :
        /\ Gmail(i) /\ inv[i].pc = "failed" /\ inv[i].retries = 2
        /\ Len(inv[i].sessions) = 3 /\ Len(inv[i].delays) = 2
        /\ inv[i].error = AttemptError("timeout", "calling", 2)

\* C3: with retries = 2, attempts 1 and 2 failing and the remote answering
\* the callTool of attempt 3, the invocation returns the text of that
\* reply, having slept twice, for 1000 ms then 2000 ms, in three attempts.
C3_ThirdAttemptSucceeds ==
    \A i \in InvIds :
        (Gmail(i) /\ inv[i].retries = 2 /\ inv[i].replyAttempt = 2
            /\ Finished(inv[i])) =>
              /\ inv[i].pc = "done"
              /\ inv[i].result = ExtractText(inv[i].reply)
              /\ inv[i].delays = <<1000, 2000>>
              /\ Len(inv[i].sessions) = 3
              /\ inv[i].calls <= 3

\* C4 as stated: with the configuration present and no refresh token
\* stored for the caller, both executors fail with the not-connected error
\* and open no session, make no call and take no backoff sleep.
C4_NoTokenAlwaysNotConnected ==
    \A i \in InvIds :
        (inv[i].noToken /\ env = EnvVars /\ Finished(inv[i])) =>
            /\ inv[i].pc = "failed"
            /\ inv[i].error = NotConnected(inv[i].kind)
            /\ inv[i].sessions = <<>>
            /\ inv[i].delays = <<>>

\* C4 amended: with no refresh token stored for the caller no session is
\* created, no call made and no sleep taken; with the configuration present
\* the invocation fails with the not-connected error, except a Gmail call
\* that a live cache entry answers before the credential lookup.
C4_NoTokenNoSession ==
    \A i \in InvIds : inv[i].noToken =>
        /\ inv[i].sessions = <<>>
        /\ inv[i].delays = <<>>
        /\ inv[i].calls = 0
        /\ (env = EnvVars /\ Finished(inv[i])) =>
              \/ inv[i].pc = "failed" /\ inv[i].error = NotConnected(inv[i].kind)
              \/ /\ Gmail(i) /\ inv[i].pc = "done" /\ inv[i].hit
                 /\ inv[i].liveAtStart /\ ~inv[i].credRead

C4_Witness ==
    \E i, j \in InvIds :
        /\ Gmail(i) /\ inv[i].noToken /\ inv[i].credRead
        /\ inv[i].pc = "failed" /\ inv[i].error = NotConnected("gmail")
        /\ inv[i].sessions = <<>>
        /\ inv[j].kind = "calendar" /\ inv[j].noToken /\ inv[j].credRead
        /\ inv[j].pc = "failed" /\ inv[j].error = NotConnected("calendar")
        /\ inv[j].sessions = <<>>

C6_MutatingNeverCached ==
    /\ \A n \in 1..Len(searchCache) :
            KeyTool(searchCache[n].key) \notin MutatingTools
    /\ \A i \in InvIds : (Gmail(i) /\ inv[i].toolName \in MutatingTools) =>
            /\ ~inv[i].hit
            /\ inv[i].pc = "done" =>
                  /\ inv[i].calls >= 1
                  /\ inv[i].result = ExtractText(inv[i].reply)

C6_Witness ==
    /\ \A i \in InvIds :
            /\ inv[i].pc = "done" /\ inv[i].toolName = "send_message"
            /\ inv[i].useCache /\ inv[i].userId = "u1" /\ inv[i].calls = 1
    /\ inv["A"].args = inv["B"].args

SameCall(i, j) ==
    /\ inv[i].userId = inv[j].userId
    /\ inv[i].toolName = inv[j].toolName
    /\ inv[i].args = inv[j].args

CacheableCall(i) ==
    Gmail(i) /\ inv[i].useCache /\ inv[i].toolName \in CacheableTools

\* C7 as stated: two cacheable invocations with the same caller, tool and
\* arguments that start within CACHE_TTL of one another issue at most one
\* callTool request in total.
C7_AtMostOneRemoteCall ==
    \A i, j \in InvIds :
        (i # j /\ CacheableCall(i) /\ CacheableCall(j) /\ SameCall(i, j)
            /\ inv[i].startedAt - inv[j].startedAt < CACHE_TTL
            /\ inv[j].startedAt - inv[i].startedAt < CACHE_TTL) =>
                inv[i].calls + inv[j].calls <= 1

\* C7 amended: a cacheable invocation that starts while searchCache holds
\* an entry for its caller, tool and arguments stored less than CACHE_TTL
\* earlier issues no callTool request and opens no session.
C7_LiveEntryNoRemoteCall ==
    \A i \in InvIds : (CacheableCall(i) /\ inv[i].liveAtStart) =>
        /\ inv[i].calls = 0
        /\ inv[i].sessions = <<>>
        /\ inv[i].pc = "done"

C7_Witness ==
    \E i, j \in InvIds :
        /\ i # j /\ CacheableCall(i) /\ CacheableCall(j) /\ SameCall(i, j)
        /\ inv[j].pc = "done" /\ ~inv[j].hit /\ inv[j].calls = 1
        /\ inv[i].liveAtStart /\ inv[i].pc = "done" /\ inv[i].calls = 0
        /\ inv[i].result = inv[j].result
        /\ inv[i].startedAt > inv[j].startedAt

OwnData(userId, toolName, args, r) ==
    \A t \in TextsIn(r) :
        t.owner = userId /\ t.tool = toolName /\ t.args = args

\* C8 as stated: what a call of one caller returns does not depend on the
\* calls of the other callers: it is the same in the run with and in the
\* run without them.
C8_SameResultWithoutOthers ==
    niLast.userId = ObservedUser => niLast.result = niLast.shadowResult

\* C8 amended: every result returned to a caller, from the remote or from
\* searchCache, is a reply of the remote to that caller's own tool and
\* arguments; the calls of other callers decide only whether the caller's
\* own entry is still cached.
C8_OwnDataOnly ==
    niLast.userId # "" =>
          /\ TextsIn(niLast.result) # {}
          /\ OwnData(niLast.userId, niLast.toolName, niLast.args, niLast.result)
          /\ OwnData(niLast.userId, niLast.toolName, niLast.args,
                     niLast.shadowResult)

C8_Witness ==
    /\ niLast.userId = ObservedUser
    /\ niLast.toolName = "list_messages"
    /\ niLast.result.owner = ObservedUser
    /\ CacheHit(searchCache, cacheKey("u2", "list_messages", ArgsQ1), now)
    /\ ~CacheHas(shadowCache, cacheKey("u2", "list_messages", ArgsQ1))
    /\ niLast.result # niLast.shadowResult

\* C9: a store that removes an entry removes exactly one, and no entry left
\* in the cache has an earlier timestamp than the removed one.
C9_EvictsEarliestTimestamp ==
    [][ (searchCache' # searchCache /\ searchCache' # <<>>) =>
          LET gone == CacheKeys(searchCache) \ CacheKeys(searchCache')
          IN /\ Cardinality(gone) <= 1
             /\ \A k \in gone : \A m \in 1..Len(searchCache') :
                    CacheGet(searchCache, k).timestamp
                        <= searchCache'[m].timestamp
      ]_vars

WellFormedEntry(e) ==
    /\ e.timestamp \in 0..now
    /\ e.result.type \in {"text", "dump"}
    /\ KeyTool(e.key) \in CacheableTools
    /\ TextsIn(e.result) # {}
    /\ \A t \in TextsIn(e.result) : e.key = cacheKey(t.owner, t.tool, t.args)

StartsCacheable(i) ==
    /\ inv[i].pc = "idle"
    /\ inv'[i].pc # "idle"
    /\ inv'[i].kind = "gmail"
    /\ inv'[i].useCache
    /\ inv'[i].toolName \in CacheableTools

\* the entries searchCache holds for the call invocation i starts with
HeldFor(i) ==
    { n \in 1..Len(searchCache) :
        searchCache[n].key =
            cacheKey(inv'[i].userId, inv'[i].toolName, inv'[i].args) }

\* C11: a cacheable call that starts while searchCache holds an entry for
\* its caller, tool and arguments aged less than CACHE_TTL returns that
\* entry's text at once, with no session, no callTool request and no
\* attempt; an entry aged CACHE_TTL or more is not returned, the call goes
\* on to the credential lookup and what it returns is its own reply.
C11_LiveEntryReturnedStaleRefetched ==
    [][ \A i \in InvIds :
          /\ StartsCacheable(i) =>
                \A n \in HeldFor(i) :
                    IF now - searchCache[n].timestamp < CACHE_TTL
                    THEN /\ inv'[i].pc = "done"
                         /\ inv'[i].result = searchCache[n].result
                         /\ inv'[i].sessions = <<>>
                         /\ inv'[i].calls = 0
                         /\ inv'[i].attempt = 0
                         /\ inv'[i].delays = <<>>
                    ELSE /\ inv'[i].pc = "lookup"
                         /\ ~inv'[i].hit
          /\ (inv'[i].kind = "gmail" /\ inv'[i].pc = "done" /\ ~inv'[i].hit) =>
                /\ inv'[i].calls >= 1
                /\ inv'[i].result = ExtractText(inv'[i].reply)
      ]_vars

\* one call answered from an entry aged CACHE_TTL / 2, the same call
\* repeated when the entry is aged exactly CACHE_TTL and fetched again
C11_Witness ==
    \E i, j \in InvIds :
        /\ i # j /\ CacheableCall(i) /\ CacheableCall(j) /\ SameCall(i, j)
        /\ inv[i].hit /\ inv[i].pc = "done" /\ inv[i].sessions = <<>>
        /\ inv[i].result = HeadEntry.result
        /\ inv[i].startedAt = TickStep
        /\ inv[j].startedAt = HeadEntry.timestamp + CACHE_TTL
        /\ ~inv[j].hit /\ inv[j].pc = "done" /\ inv[j].calls = 1
        /\ inv[j].result.ver >= CACHE_TTL
        /\ Len(searchCache) = CacheCapacity

\* C12: when an invocation of executeGoogleCalendarTool has returned or
\* thrown, every session it opened has been closed, whether the call
\* succeeded, connect failed or callTool failed.
C12_CalendarClosesOnEveryExit ==
    \A i \in InvIds : (inv[i].kind = "calendar" /\ Finished(inv[i])) =>
        \A n \in 1..Len(inv[i].sessions) : inv[i].sessions[n] >= 1

\* C13: when an attempt fails by timeout or remote exception (connect
\* included) and the close of its session in the catch block throws, the
\* close error is swallowed: lastError, and the error thrown once the
\* retries are exhausted, is the attempt's own failure.
C13_CloseErrorSwallowed ==
    [][ \A i \in InvIds :
          (/\ inv[i].kind = "gmail"
           /\ inv[i].pc = "closingAfterError"
           /\ inv[i].pending.kind \in {"timeout", "remote"}
           /\ inv'[i].swallowed > inv[i].swallowed) =>
              /\ inv'[i].lastError = inv[i].pending
              /\ inv'[i].lastError.kind # "close"
              /\ inv'[i].pc \in {"sleeping", "failed"}
              /\ inv'[i].pc = "sleeping" <=> inv[i].attempt < inv[i].retries
              /\ inv'[i].pc = "failed" => inv'[i].error = inv[i].pending
      ]_vars

\* both attempts fail and one close in the catch block throws: the failure
\* of the second attempt is thrown
C13_Witness ==
    \E i \in InvIds :
        /\ Gmail(i) /\ inv[i].pc = "failed" /\ inv[i].retries = 1
        /\ inv[i].swallowed = 1
        /\ inv[i].sessions = <<1, 1>>
        /\ inv[i].error.kind \in {"timeout", "remote"}
        /\ inv[i].error.attempt = 1

\* C14: when an abandoned connect or callTool settles after its attempt's
\* timeout has fired, or the timer of a finished attempt fires, no
\* invocation and no cache entry changes; what an invocation returns is
\* the reply its last attempt received, and every cache entry is such a
\* returned result.
C14_LateSettlementDiscarded ==
    [][ /\ late'.landed # late.landed =>
              inv' = inv /\ searchCache' = searchCache
        /\ \A i \in InvIds :
              (inv'[i].kind = "gmail" /\ inv'[i].pc = "done" /\ ~inv'[i].hit) =>
                  /\ inv'[i].replyAttempt = inv'[i].attempt
                  /\ inv'[i].result = ExtractText(inv'[i].reply)
        /\ \A n \in 1..Len(searchCache') :
              \E i \in InvIds :
                  /\ inv'[i].pc = "done" /\ ~inv'[i].hit
                  /\ searchCache'[n].result = inv'[i].result
      ]_vars

\* the callTool of attempt 1 timed out and answered while attempt 2 was
\* running; attempt 2 got its own reply, and a timer fired after its attempt
C14_Witness ==
    \E x, y \in late.landed :
        /\ x.what = "call" /\ x.attempt = 0 /\ x.inAttempt = 1
        /\ y.what = "timer" /\ y.id = x.id /\ y.attempt = 1
        /\ inv[x.id].pc = "done" /\ ~inv[x.id].hit
        /\ inv[x.id].replyAttempt = 1
        /\ inv[x.id].lastError = AttemptError("timeout", "calling", 0)

\* C15: with timers firing, the credential lookup returning and close
\* completing, every invocation of executeGmailToolEnhanced that starts
\* ends with a result or a failure, whatever the remote does, and never
\* makes more than retries + 1 attempts.
C15_EveryInvocationEnds ==
    /\ [](\A i \in InvIds : Len(inv[i].sessions) <= inv[i].retries + 1)
    /\ \A i \in InvIds : (inv[i].pc # "idle") ~> Finished(inv[i])

\* the remote never answered: two attempts, both ended by the timer while
\* connecting, no callTool request ever issued
C15_Witness ==
    \E i \in InvIds :
        /\ Gmail(i) /\ inv[i].pc = "failed" /\ inv[i].retries = 1
        /\ inv[i].calls = 0
        /\ Len(inv[i].sessions) = 2
        /\ inv[i].error = AttemptError("timeout", "connecting", 1)
        /\ { x \in late.flying : x.id = i } =
              { [id |-> i, attempt |-> k, what |-> "connect"] : k \in 0..1 }

\* C16: in executeGoogleCalendarTool and in the Exa executors the connect
\* step and the callTool step are bounded by a timeout: an invocation that
\* waits for the remote ends, with a failure if the remote never answers.
C16_PlainExecutorsBounded ==
    \A i \in InvIds :
        (inv[i].kind \in {"calendar", "exa"}
            /\ inv[i].pc \in {"connecting", "calling"}) ~> Finished(inv[i])

InAttempt(s) ==
    s.pc \in {"connecting", "calling", "closingAfterSuccess",
              "closingAfterError"}

C18_ConfigMissingFailsAtOnce ==
    \A i \in InvIds :
        (env # EnvVars /\ inv[i].kind \in {"gmail", "calendar"}) =>
            /\ inv[i].pc = "failed"
            /\ inv[i].error.kind = "configuration_missing"
            /\ ~inv[i].credRead
            /\ ~inv[i].hit
            /\ inv[i].sessions = <<>>
            /\ inv[i].calls = 0
            /\ inv[i].attempt = 0
            /\ inv[i].delays = <<>>

C18_Witness ==
    /\ env = EnvVars \ {"GOOGLE_CLIENT_ID"}
    /\ gmailTokens["u1"] # NoToken
    /\ calendarTokens["u1"] # NoToken
    /\ inv["A"].error = ConfigMissing("gmail")
    /\ inv["B"].error = ConfigMissing("google_oauth")

----------------------------------------------------------------------------
(* executeGmailToolEnhanced against a remote that answers in any shape *)

NextReply ==
    \/ \E t \in GmailToolNames, uc \in BOOLEAN, r \in 0..MaxTimeoutRetries :
          GmailStart("A", "u1", t, ArgsQ1, uc, r)
    \/ GmailLookup("A")
    \/ ConnectOk("A")
    \/ \E sh \in ReplyShapes \cup MalformedShapes : CallOk("A", sh)
    \/ GmailCloseAfterReply("A")
    \/ GmailCloseAfterError("A", FALSE)
    \/ GmailSleepDone("A")
    \/ Return("A")
    \/ Tick

SpecReply == InitSessions /\ [][NextReply]_vars

\* the reply is not a list whose first item is text-typed
IsMalformed(reply) ==
    \/ reply \in {NullReply, NoContent, NotAList}
    \/ ~(Len(reply) >= 1 /\ reply[1].type = "text")

\* C19: a reply that does not match the expected content shape (content
\* missing, not a list, empty, first item not text-typed, or the reply
\* itself null) never fails an invocation of executeGmailToolEnhanced and
\* never triggers a retry: the invocation ends on the attempt that was
\* answered and returns a string dump of the reply.
C19_MalformedReplyDumped ==
    \A i \in InvIds :
        (inv[i].kind = "gmail" /\ inv[i].replyAttempt >= 0
                               /\ IsMalformed(inv[i].reply)) =>
            /\ inv[i].pc \in {"closingAfterSuccess", "done"}
            /\ inv[i].attempt = inv[i].replyAttempt
            /\ Len(inv[i].sessions) = inv[i].replyAttempt + 1
            /\ inv[i].pc = "done" =>
                    inv[i].result = [type |-> "dump", content |-> inv[i].reply]

----------------------------------------------------------------------------
(* searchEmails, semanticEmailSearch, enhancedEmailSearch *)

SearchTools == {"searchEmails", "semanticEmailSearch", "enhancedEmailSearch"}

\* a string is the sequence of its pieces; parts.join(' ')
RECURSIVE JoinSpace(_)
JoinSpace(parts) ==
    IF parts = <<>> THEN <<>>
    ELSE parts[1] \o (IF Len(parts) > 1 THEN <<" ">> ELSE <<>>)
                  \o JoinSpace(Tail(parts))

\* the search parameters of semanticEmailSearch; "" is an absent field
QueryParams(nq, start, end, sender, att, unread) ==
    [ naturalQuery |-> nq, start |-> start, end |-> end, sender |-> sender,
      hasAttachment |-> att, isUnread |-> unread ]

\* variant: the sender filter is pushed before the dates
buildGmailQuerySenderFirst(params) ==
    LET p1 == IF params.naturalQuery # "" THEN << <<params.naturalQuery>> >>
              ELSE <<>>
        p2 == IF params.sender # ""
              THEN Append(p1, <<"from:", params.sender>>) ELSE p1
        p3 == IF params.start # ""
              THEN Append(p2, <<"after:", params.start>>) ELSE p2
        p4 == IF params.end # ""
              THEN Append(p3, <<"before:", params.end>>) ELSE p3
        p5 == IF params.hasAttachment THEN Append(p4, <<"has:attachment">>)
              ELSE p4
        p6 == IF params.isUnread THEN Append(p5, <<"is:unread">>) ELSE p5
    IN JoinSpace(p6)

\* buildGmailQuery: one push per truthy field, then join(' ')
buildGmailQuery(params) ==
    LET p1 == IF params.naturalQuery # "" THEN << <<params.naturalQuery>> >>
              ELSE <<>>
        p2 == IF params.start # ""
              THEN Append(p1, <<"after:", params.start>>) ELSE p1
        p3 == IF params.end # ""
              THEN Append(p2, <<"before:", params.end>>) ELSE p2
        p4 == IF params.sender # ""
              THEN Append(p3, <<"from:", params.sender>>) ELSE p3
        p5 == IF params.hasAttachment THEN Append(p4, <<"has:attachment">>)
              ELSE p4
        p6 == IF params.isUnread THEN Append(p5, <<"is:unread">>) ELSE p5
    IN JoinSpace(p6)

\* gmailQuery.includes(piece...)
Includes(q, pieces) ==
    \E n \in 1..Len(q) :
        /\ n + Len(pieces) - 1 <= Len(q)
        /\ \A m \in 1..Len(pieces) : q[n + m - 1] = pieces[m]

\* the query as one value that can stand in an arguments object
QueryText(q) ==
    IF q = <<>> THEN "" ELSE IF Len(q) = 1 THEN q[1] ELSE ToString(q)

\* the arguments each tool hands to list_messages
SearchArgs(tool, q, u) ==
    IF tool = "semanticEmailSearch"
    THEN << <<"q", QueryText(q)>>, <<"maxResults", "10">>,
            <<"labelIds", IF Includes(q, <<"in:sent">>)
                             \/ Includes(q, <<"from:", u>>)
                          THEN "SENT" ELSE "INBOX">> >>
    ELSE << <<"q", QueryText(q)>>, <<"labelIds", "INBOX">> >>

\* what JSON.parse makes of the text the executor returned
ParseOutcomes == {"not_json", "no_list", "empty", "one"}

NoEmailsFound == [type |-> "no_emails_found"]
FetchFailed == [type |-> "could_not_fetch"]

\* formatEmailResults: the raw text unless it parses to a message list
formatEmailResults(emailData, parsed) ==
    CASE parsed \in {"not_json", "no_list"} -> emailData
      [] parsed = "empty" -> NoEmailsFound
      [] parsed = "one" -> [type |-> "listing", of |-> emailData]

\* formatEmailResultsWithContent, given what get_message returned
formatEmailResultsWithContent(emailData, parsed, fetched) ==
    CASE parsed \in {"not_json", "no_list"} -> emailData
      [] parsed = "empty" -> NoEmailsFound
      [] parsed = "one" -> [type |-> "listing_with_content",
                            of |-> emailData, content |-> fetched]

\* the row saveGmailSearchHistory is asked to append
HistoryRow(s) ==
    [ userId |-> s.userId, query |-> s.query,
      resultCount |-> IF s.parsed = "one" THEN 1 ELSE 0,
      executionTime |-> s.executionTime ]

\* the tool's execute up to the call of executeGmailToolEnhanced
SearchStart(tool, sender) ==
    /\ search.pc = "idle"
    /\ inv["A"].pc = "idle"
    /\ Len(history) < MaxHistory
    /\ LET q == IF tool = "semanticEmailSearch"
                THEN buildGmailQuery(QueryParams("invoice", "", "", sender,
                                                 FALSE, FALSE))
                ELSE <<"invoice">>
       IN search' = [IdleSearch EXCEPT !.pc = "calling", !.tool = tool,
                                       !.userId = "u1",
                                       !.query = QueryText(q),
                                       !.searchArgs = SearchArgs(tool, q, "u1"),
                                       !.startTime = now]
    /\ UNCHANGED <<service, provider, applied, shadowCache, niLast, late, history, now, env, gmailTokens,
                   calendarTokens, searchCache, inv, faults>>

\* executeGmailToolEnhanced('list_messages', searchArgs, userId, {useCache: true})
SearchCall ==
    /\ search.pc = "calling"
    /\ GmailStart("A", search.userId, "list_messages", search.searchArgs, TRUE, 2)

\* the executor settled: its failure fails the tool, its text is parsed
SearchResume(p) ==
    /\ search.pc = "calling"
    /\ Finished(inv["A"])
    /\ search' =
        IF inv["A"].pc = "failed"
        THEN [search EXCEPT !.pc = "failed", !.error = inv["A"].error]
        ELSE [search EXCEPT !.result = inv["A"].result,
                            !.executionTime = now - search.startTime,
                            !.parsed = p,
                            !.pc = IF p = "not_json" THEN "formatting"
                                                     ELSE "saving"]
    /\ inv' = [inv EXCEPT !["A"] = IdleInv]
    /\ UNCHANGED <<service, provider, applied, shadowCache, niLast, late, history, now, env, gmailTokens,
                   calendarTokens, searchCache, faults>>

\* saveGmailSearchHistory resolves: the row is in the store
SaveOk ==
    /\ search.pc = "saving"
    /\ history' = Append(history, HistoryRow(search))
    /\ search' = [search EXCEPT !.pc = "formatting", !.rows = @ + 1]
    /\ UNCHANGED <<service, provider, applied, shadowCache, niLast, late, now, env, gmailTokens,
                   calendarTokens, searchCache, inv, faults>>

\* variant: the rejection is not caught and fails the tool
SaveFailsAborts ==
    /\ search.pc = "saving"
    /\ faults > 0
    /\ faults' = faults - 1
    /\ search' = [search EXCEPT !.pc = "failed", !.saveFailed = TRUE,
                                !.error = [kind |-> "history"]]
    /\ UNCHANGED <<service, provider, applied, shadowCache, niLast, late, history, now, env, gmailTokens,
                   calendarTokens, searchCache, inv>>

\* saveGmailSearchHistory throws or rejects: the catch block is empty
SaveFails ==
    /\ search.pc = "saving"
    /\ faults > 0
    /\ faults' = faults - 1
    /\ search' = [search EXCEPT !.pc = "formatting", !.saveFailed = TRUE]
    /\ UNCHANGED <<service, provider, applied, shadowCache, niLast, late, history, now, env, gmailTokens,
                   calendarTokens, searchCache, inv>>

\* the formatter, up to its return or its first get_message
SearchFormat ==
    /\ search.pc = "formatting"
    /\ search' =
        IF search.tool = "searchEmails"
        THEN IF search.parsed = "one"
             THEN [search EXCEPT !.pc = "fetching"]
             ELSE [search EXCEPT !.pc = "returned",
                      !.returned = formatEmailResultsWithContent(
                                        search.result, search.parsed, NoText)]
        ELSE [search EXCEPT !.pc = "returned",
                 !.returned = formatEmailResults(search.result, search.parsed)]
    /\ UNCHANGED <<service, provider, applied, shadowCache, niLast, late, history, now, env, gmailTokens,
                   calendarTokens, searchCache, inv, faults>>

\* executeGmailTool('get_message', {id, format: 'full'}, userId)
SearchFetch ==
    /\ search.pc = "fetching"
    /\ GmailStart("A", search.userId, "get_message",
                  << <<"id", "m1">>, <<"format", "full">> >>, FALSE, 1)

\* get_message settled: its text, or the fallback lines when it failed
SearchFetched ==
    /\ search.pc = "fetching"
    /\ Finished(inv["A"])
    /\ search' = [search EXCEPT !.pc = "returned",
            !.returned = formatEmailResultsWithContent(
                            search.result, search.parsed,
                            IF inv["A"].pc = "done" THEN inv["A"].result
                                                    ELSE FetchFailed)]
    /\ inv' = [inv EXCEPT !["A"] = IdleInv]
    /\ UNCHANGED <<service, provider, applied, shadowCache, niLast, late, history, now, env, gmailTokens,
                   calendarTokens, searchCache, faults>>

\* the caller has taken the tool's text or its failure
SearchReturn ==
    /\ search.pc \in {"returned", "failed"}
    /\ search' = IdleSearch
    /\ UNCHANGED <<service, provider, applied, shadowCache, niLast, late, history, now, env, gmailTokens,
                   calendarTokens, searchCache, inv, faults>>

NextHistory ==
    \/ \E tool \in SearchTools, sender \in {"", "u1"} : SearchStart(tool, sender)
    \/ SearchCall
    \/ \E p \in ParseOutcomes : SearchResume(p)
    \/ SaveOk
    \/ SaveFails
    \/ SearchFormat
    \/ SearchFetch
    \/ SearchFetched
    \/ SearchReturn
    \/ GmailLookup("A")
    \/ ConnectOk("A")
    \/ GmailCallFail("A")
    \/ CallOk("A", "text")
    \/ GmailCloseAfterReply("A")
    \/ GmailCloseAfterError("A", FALSE)
    \/ GmailSleepDone("A")

SpecHistory == InitSessions /\ [][NextHistory]_vars

\* the text the tool returns for what the executor and get_message gave it
ExpectedText(s) ==
    IF s.tool = "searchEmails"
    THEN formatEmailResultsWithContent(s.result, s.parsed,
            IF s.returned.type = "listing_with_content"
            THEN s.returned.content ELSE NoText)
    ELSE formatEmailResults(s.result, s.parsed)

\* C20: in searchEmails, semanticEmailSearch and enhancedEmailSearch a
\* failure of the history append never fails the tool and never changes
\* the returned text: the tool goes on to format and returns the text it
\* returns when the append succeeds, and nothing is added to the history.
C20_HistoryFailureSwallowed ==
    /\ [](search.saveFailed =>
            /\ search.pc \in {"formatting", "fetching", "returned"}
            /\ search.error = NoError
            /\ search.pc = "returned" =>
                    search.returned = ExpectedText(search))
    /\ [][ (search.pc = "saving" /\ search'.saveFailed) =>
                /\ history' = history
                /\ search'.pc = "formatting"
                /\ search'.result = search.result
                /\ search'.parsed = search.parsed ]_vars

C20_Witness ==
    /\ search.saveFailed
    /\ search.pc = "returned"
    /\ search.tool = "searchEmails"
    /\ search.returned.type = "listing_with_content"
    /\ search.returned.content.type = "text"

----------------------------------------------------------------------------
(* Response normalizers: formatEmailResults, formatEmailResultsWithContent,
   parseEventCreationResponse, parseEventListResponse,
   parseCalendarListResponse, parseAuthStatusResponse *)

\* how an evaluation ends: it returns a value or it throws
Ret(v) == [threw |-> FALSE, value |-> v]
Throw(name) == [threw |-> TRUE, value |-> [type |-> "exception", name |-> name]]
\* try { body } catch { handler }
TryCatch(body, handler) == IF body.threw THEN handler ELSE body

\* what a Gmail reply text is, as far as the formatters look at it: what
\* JSON.parse makes of it and, for a one-message list, the message item
JsonShapes == {"not_json", "null", "no_list", "empty", "one"}
ItemShapes == {"ok", "null_item", "from_not_string", "bad_date"}
EmailTexts ==
    { [json |-> j, item |-> "ok"] : j \in JsonShapes }
    \cup { [json |-> "one", item |-> i] : i \in ItemShapes }

\* what a calendar reply text is, as far as the parsers look at it:
\* "## title", "(0 found)", "Time Range:**", "Fully Authenticated"
CalendarTexts ==
    [title : BOOLEAN, zero : BOOLEAN, range : BOOLEAN, auth : BOOLEAN]

\* a datetime string, cut into the pieces the code looks for; <<>> is a
\* datetime that was not given
DateTimes ==
    { <<>>,
      <<"2025-06-01">>,
      <<"2025-06-01", "T", "10:00:", "00">>,
      <<"2025-06-01", "T", "10:30:", "15">>,
      <<"2025-06-01", "T", "10:00:00", "Z">> }

\* the caller's timeZone: none, one Intl knows, one it does not
TimeZones == {"", "Europe/Paris", "Mars/Phobos"}
IntlZones == {"Europe/Paris", "America/Los_Angeles", "America/New_York"}

\* !s.includes('T') || (!s.includes('+') && !s.includes('Z') && !s.endsWith('00'))
LacksZone(dt) ==
    \/ ~Includes(dt, <<"T">>)
    \/ ( /\ ~Includes(dt, <<"+">>)
         /\ ~Includes(dt, <<"Z">>)
         /\ dt[Len(dt)] # "00" )

\* createEvent: the arguments it sends to create_event
createEvent(startDateTime, endDateTime, timeZone) ==
    LET given == startDateTime # <<>> /\ endDateTime # <<>>
        defaultTimeZone == IF timeZone # "" THEN timeZone
                                            ELSE "America/New_York"
        midnight(dt) == IF Includes(dt, <<"T">>) THEN dt
                        ELSE dt \o <<"T", "00:00:", "00">>
        zone1 == IF given /\ LacksZone(startDateTime)
                 THEN defaultTimeZone ELSE ""
        zone2 == IF given /\ LacksZone(endDateTime) /\ zone1 = ""
                 THEN defaultTimeZone ELSE zone1
    IN [ start_time |-> IF given THEN midnight(startDateTime) ELSE <<>>,
         end_time |-> IF given THEN midnight(endDateTime) ELSE <<>>,
         time_zone |-> IF timeZone # "" /\ zone2 = "" THEN timeZone
                                                     ELSE zone2 ]

\* arguments of create_event, as createEvent sends them
EventArgs ==
    { createEvent(dt, dt, tz) : dt \in DateTimes, tz \in TimeZones }

\* what executeGmailTool('get_message') gives the content formatter
FetchOutcomes == {"ok", "fails", "not_json", "from_not_string"}

\* the executors hand over resultText: a text, or undefined when the
\* first item has no text or the reply has no content
IsString(v) == v # Undefined

\* JSON.parse(emailData): undefined and non-JSON texts are a SyntaxError
JSONParse(d) ==
    IF ~IsString(d) \/ d.json = "not_json" THEN Throw("SyntaxError")
    ELSE Ret(d.json)

\* the forEach body: email.payload on a null item and from.match on a
\* From header that is no string are TypeErrors, an unparseable date is not
ListItem(d) ==
    IF d.item \in {"null_item", "from_not_string"} THEN Throw("TypeError")
    ELSE Ret([type |-> "listing", of |-> d])

\* variant: a list without items is formatted like any other list
TryFormatEmailResultsNoEmptyCase(d) ==
    TryCatch(LET parsed == JSONParse(d)
             IN IF parsed.threw THEN parsed
                ELSE IF parsed.value \in {"null", "no_list"} THEN Ret(d)
                ELSE Ret([type |-> "listing", of |-> d]),
             Ret(d))

\* formatEmailResults with its try and its catch
TryFormatEmailResults(d) ==
    TryCatch(LET parsed == JSONParse(d)
             IN IF parsed.threw THEN parsed
                ELSE IF parsed.value \in {"null", "no_list"} THEN Ret(d)
                ELSE IF parsed.value = "empty" THEN Ret(NoEmailsFound)
                ELSE ListItem(d),
             Ret(d))

\* the loop body of formatEmailResultsWithContent for one message: the
\* inner try fetches and formats, the inner catch writes the fallback lines
FetchItem(d, fetch) ==
    TryCatch(IF d.item = "null_item" THEN Throw("TypeError")
             ELSE IF fetch = "fails" THEN Throw("Error")
             ELSE IF fetch = "not_json" THEN Throw("SyntaxError")
             ELSE IF fetch = "from_not_string" THEN Throw("TypeError")
             ELSE Ret([type |-> "listing_with_content", of |-> d,
                       content |-> fetch]),
             IF d.item = "null_item" THEN Throw("TypeError")
             ELSE Ret([type |-> "listing_with_content", of |-> d,
                       content |-> FetchFailed]))

\* formatEmailResultsWithContent with its try and its catch
TryFormatEmailResultsWithContent(d, fetch) ==
    TryCatch(LET parsed == JSONParse(d)
             IN IF parsed.threw THEN parsed
                ELSE IF parsed.value \in {"null", "no_list"} THEN Ret(d)
                ELSE IF parsed.value = "empty" THEN Ret(NoEmailsFound)
                ELSE FetchItem(d, fetch),
             Ret(d))

EventCreatedPlain == [type |-> "event_created_plain"]
NoEventsFound == [type |-> "no_events_found"]
CalendarConnected == [type |-> "calendar_connected"]

\* parseEventCreationResponse: the times are formatted in
\* originalArgs.time_zone || 'America/Los_Angeles'; an unknown time zone
\* throws in the inner try, whose catch reads the times from the reply
TryParseEventCreationResponse(d, a) ==
    LET timeZone == IF a.time_zone # "" THEN a.time_zone
                                        ELSE "America/Los_Angeles"
        when == IF a.start_time # <<>> /\ a.end_time # <<>>
                THEN TryCatch(IF timeZone \in IntlZones
                              THEN Ret([from |-> "args", zone |-> timeZone])
                              ELSE Throw("RangeError"),
                              Ret([from |-> "reply", zone |-> ""]))
                ELSE Ret([from |-> "unknown", zone |-> ""])
        body == IF ~IsString(d) THEN Throw("TypeError")
                ELSE IF d.title
                THEN IF when.threw THEN when
                     ELSE Ret([type |-> "event_created", of |-> d,
                               when |-> when.value])
                ELSE Ret(EventCreatedPlain)
    IN TryCatch(body, Ret(EventCreatedPlain))

\* parseEventListResponse: the fallback after the catch calls
\* rawResponse.replace outside any try
TryParseEventListResponse(d) ==
    LET body == IF ~IsString(d) THEN Throw("TypeError")
                ELSE IF d.zero THEN Ret(NoEventsFound)
                ELSE Ret([type |-> IF d.range THEN "found_events"
                                              ELSE "your_events", of |-> d])
    IN TryCatch(body, IF ~IsString(d) THEN Throw("TypeError")
                      ELSE Ret([type |-> "ids_removed", of |-> d]))

\* parseCalendarListResponse
TryParseCalendarListResponse(d) ==
    TryCatch(IF ~IsString(d) THEN Throw("TypeError")
             ELSE Ret([type |-> "your_calendars", of |-> d]),
             Ret(d))

\* parseAuthStatusResponse
TryParseAuthStatusResponse(d) ==
    TryCatch(IF ~IsString(d) THEN Throw("TypeError")
             ELSE IF d.auth THEN Ret(CalendarConnected) ELSE Ret(d),
             Ret(d))

EmailFormatters == {"formatEmailResults", "formatEmailResultsWithContent"}
CalendarParsers == {"parseEventCreationResponse", "parseEventListResponse",
                    "parseCalendarListResponse", "parseAuthStatusResponse"}

\* a Gmail formatter is applied to the text of a successful invocation
ApplyEmailFormatter(fn, d, fetch) ==
    /\ applied' =
        [fn |-> fn,
         input |-> IF fn = "formatEmailResults" THEN <<d>> ELSE <<d, fetch>>,
         out |-> IF fn = "formatEmailResults"
                 THEN TryFormatEmailResults(d)
                 ELSE TryFormatEmailResultsWithContent(d, fetch)]
    /\ UNCHANGED <<service, provider, shadowCache, niLast, late, search, history, now, env,
                   gmailTokens, calendarTokens, searchCache, inv, faults>>

\* createEvent's arguments go through executeGoogleCalendarTool, whose
\* switch hands them to parseEventCreationResponse with the reply text
ApplyCreateEvent(st, en, tz, d) ==
    /\ applied' =
        [fn |-> "createEvent",
         input |-> <<st, en, tz, d>>,
         out |-> TryParseEventCreationResponse(d, createEvent(st, en, tz))]
    /\ UNCHANGED <<service, provider, shadowCache, niLast, late, search, history, now, env,
                   gmailTokens, calendarTokens, searchCache, inv, faults>>

\* the switch on toolName in executeGoogleCalendarTool
ApplyCalendarParser(fn, d, a) ==
    /\ applied' =
        [fn |-> fn,
         input |-> IF fn = "parseEventCreationResponse" THEN <<d, a>> ELSE <<d>>,
         out |-> CASE fn = "parseEventCreationResponse" ->
                        TryParseEventCreationResponse(d, a)
                   [] fn = "parseEventListResponse" ->
                        TryParseEventListResponse(d)
                   [] fn = "parseCalendarListResponse" ->
                        TryParseCalendarListResponse(d)
                   [] fn = "parseAuthStatusResponse" ->
                        TryParseAuthStatusResponse(d)]
    /\ UNCHANGED <<service, provider, shadowCache, niLast, late, search, history, now, env,
                   gmailTokens, calendarTokens, searchCache, inv, faults>>

NextNormalize ==
    \/ \E fn \in EmailFormatters, d \in EmailTexts \cup {Undefined},
          fetch \in FetchOutcomes : ApplyEmailFormatter(fn, d, fetch)
    \/ \E fn \in CalendarParsers, d \in CalendarTexts \cup {Undefined},
          a \in EventArgs : ApplyCalendarParser(fn, d, a)
    \/ \E st \in DateTimes, en \in DateTimes, tz \in TimeZones,
          d \in CalendarTexts : ApplyCreateEvent(st, en, tz, d)

SpecNormalize == InitSessions /\ [][NextNormalize]_vars

\* C21: normalization is total: for every reply text the six normalizers
\* return a string and never throw, so that a successful invocation never
\* fails because of normalization.
C21_NormalizationTotal ==
    applied.fn \in EmailFormatters \cup CalendarParsers =>
        /\ ~applied.out.threw
        /\ IsString(applied.out.value)

\* C22: formatEmailResults and formatEmailResultsWithContent return the
\* fixed "No emails found" sentence when the parsed payload's messages list
\* is present and empty, and return the raw input text unchanged when the
\* text is not parseable JSON or the payload has no messages list.
C22_EmptyListFixedElseRaw ==
    (applied.fn \in EmailFormatters /\ IsString(applied.input[1])) =>
        LET d == applied.input[1]
        IN /\ d.json = "empty" => applied.out = Ret(NoEmailsFound)
           /\ d.json \in {"not_json", "null", "no_list"} => applied.out = Ret(d)

C22_Witness ==
    /\ applied.fn = "formatEmailResultsWithContent"
    /\ applied.input[1] = [json |-> "empty", item |-> "ok"]
    /\ applied.out.value = NoEmailsFound

----------------------------------------------------------------------------
(* buildGmailQuery *)

QueryInputs ==
    { QueryParams(nq, st, en, sd, att, unread) :
        nq \in {"", "invoice", "in:sent"}, st \in {"", "2024-01-01"},
        en \in {"", "2024-02-01"}, sd \in {"", "a@b.com", "u1"},
        att \in BOOLEAN, unread \in BOOLEAN }

\* semanticEmailSearch builds its query from the parameters it was given
ApplyBuildGmailQuery(params) ==
    /\ applied' = [fn |-> "buildGmailQuery", input |-> <<params>>,
                   out |-> buildGmailQuery(params)]
    /\ UNCHANGED <<service, provider, shadowCache, niLast, late, search, history, now, env,
                   gmailTokens, calendarTokens, searchCache, inv, faults>>

NextQuery == \E params \in QueryInputs : ApplyBuildGmailQuery(params)

SpecQuery == InitSessions /\ [][NextQuery]_vars

\* the operators of the query syntax in their fixed order, each with the
\* condition under which its field is present
QueryFields(p) ==
    << [present |-> p.naturalQuery # "", piece |-> <<p.naturalQuery>>],
       [present |-> p.start # "", piece |-> <<"after:", p.start>>],
       [present |-> p.end # "", piece |-> <<"before:", p.end>>],
       [present |-> p.sender # "", piece |-> <<"from:", p.sender>>],
       [present |-> p.hasAttachment, piece |-> <<"has:attachment">>],
       [present |-> p.isUnread, piece |-> <<"is:unread">>] >>

\* the pieces of q between its single spaces
RECURSIVE SplitSpace(_)
SplitSpace(q) ==
    IF q = <<>> THEN <<>>
    ELSE LET cut == IF \E n \in 1..Len(q) : q[n] = " "
                    THEN CHOOSE n \in 1..Len(q) :
                            q[n] = " " /\ \A m \in 1..(n - 1) : q[m] # " "
                    ELSE Len(q) + 1
         IN <<SubSeq(q, 1, cut - 1)>> \o SplitSpace(SubSeq(q, cut + 1, Len(q)))

\* C23: buildGmailQuery returns the present fields joined by single
\* spaces in the order free text, after:, before:, from:, has:attachment,
\* is:unread, omitting every absent field and adding nothing else; the
\* example of the specification yields exactly its string and all fields
\* absent yields the empty string.
C23_QueryIsPresentFieldsInOrder ==
    applied.fn = "buildGmailQuery" =>
        LET p == applied.input[1]
            present == SelectSeq(QueryFields(p), LAMBDA f : f.present)
        IN /\ SplitSpace(applied.out)
                = [n \in 1..Len(present) |-> present[n].piece]
           /\ p = QueryParams("invoice", "2024-01-01", "", "a@b.com", TRUE, TRUE)
                => applied.out = <<"invoice", " ", "after:", "2024-01-01", " ",
                                   "from:", "a@b.com", " ", "has:attachment",
                                   " ", "is:unread">>
           /\ p = QueryParams("", "", "", "", FALSE, FALSE)
                => applied.out = <<>>

C23_Witness ==
    /\ applied.fn = "buildGmailQuery"
    /\ applied.input[1]
            = QueryParams("invoice", "2024-01-01", "", "a@b.com", TRUE, TRUE)
    /\ Len(applied.out) = 11

----------------------------------------------------------------------------
(* GET /api/mcp-servers *)

Null == [type |-> "null"]

serverNames == <<"exa", "@shinzo-labs/gmail-mcp", "@goldk3y/google-calendar-mcp">>

FallbackServer(name) ==
    [ qualifiedName |-> name, source |-> "fallback",
      description |-> "fallback", tools |-> "fallback" ]
FALLBACK_SERVERS == [n \in 1..Len(serverNames) |-> FallbackServer(serverNames[n])]

\* how one request to the registry ends: fetch rejects, the status is not
\* ok, the body is not JSON, the body is null, the body is a descriptor
\* with or without a tools list
RegistryOutcomes ==
    {"network_error", "http_error", "not_json", "null_body", "full", "no_tools"}
Succeeded(outcome) == outcome \in {"full", "no_tools"}

\* the descriptor built from the registry's body: its description is
\* replaced for exa and Gmail, a missing tools list becomes []
RegistryServer(name, outcome) ==
    [ qualifiedName |-> name, source |-> "registry",
      description |-> IF name \in {"exa", "@shinzo-labs/gmail-mcp"}
                      THEN "short" ELSE "registry",
      tools |-> IF outcome = "no_tools" THEN "empty" ELSE "registry" ]

\* variant: a failed fetch is thrown on to the caller
fetchServerFromRegistryRethrows(name, outcome) ==
    IF outcome \in {"network_error", "http_error"} THEN Throw("Error")
    ELSE IF outcome = "not_json" THEN Throw("SyntaxError")
    ELSE IF outcome = "null_body" THEN Throw("TypeError")
    ELSE Ret(RegistryServer(name, outcome))

\* fetchServerFromRegistry: every failure is caught and becomes null
fetchServerFromRegistry(name, outcome) ==
    TryCatch(IF outcome \in {"network_error", "http_error"} THEN Throw("Error")
             ELSE IF outcome = "not_json" THEN Throw("SyntaxError")
             ELSE IF outcome = "null_body" THEN Throw("TypeError")
             ELSE Ret(RegistryServer(name, outcome)),
             Ret(Null))

\* NextResponse.json({ servers })
ServersResponse(servers) == [status |-> 200, servers |-> servers]

\* GET: outcomes[n] is how the n-th registry request ends; unexpected is a
\* throw inside the try after the fetches were awaited
GET(key, outcomes, unexpected) ==
    LET fetched == [n \in 1..Len(serverNames) |->
                        fetchServerFromRegistry(serverNames[n], outcomes[n])]
        servers == [n \in 1..Len(serverNames) |->
                        IF fetched[n].value # Null THEN fetched[n].value
                        ELSE IF \E m \in 1..Len(FALLBACK_SERVERS) :
                                FALLBACK_SERVERS[m].qualifiedName = serverNames[n]
                        THEN FALLBACK_SERVERS[
                                CHOOSE m \in 1..Len(FALLBACK_SERVERS) :
                                FALLBACK_SERVERS[m].qualifiedName = serverNames[n]]
                        ELSE Null]
        body == IF ~key THEN Ret(ServersResponse(FALLBACK_SERVERS))
                ELSE IF \E n \in 1..Len(serverNames) : fetched[n].threw
                THEN Throw("Error")
                ELSE IF unexpected THEN Throw("Error")
                ELSE Ret(ServersResponse(
                            SelectSeq(servers, LAMBDA sv : sv # Null)))
    IN TryCatch(body, Ret(ServersResponse(FALLBACK_SERVERS)))

InitServers ==
    /\ now = 0
    /\ env \in {EnvVars, EnvVars \ {"SMITHERY_API_KEY"}}
    /\ gmailTokens = AllConnected
    /\ calendarTokens = AllConnected
    /\ searchCache = <<>>
    /\ inv = [i \in InvIds |-> IdleInv]
    /\ faults = 0
    /\ shadowCache = <<>>
    /\ niLast = NoCall
    /\ late = NoLate
    /\ search = IdleSearch
    /\ history = <<>>
    /\ applied = NotApplied
    /\ service = IdleService
    /\ provider = IdleProvider

\* a request to the route is answered
ServeMcpServers(outcomes, unexpected) ==
    /\ applied' = [fn |-> "GET /api/mcp-servers",
                   input |-> <<outcomes, unexpected>>,
                   out |-> GET("SMITHERY_API_KEY" \in env, outcomes, unexpected)]
    /\ UNCHANGED <<service, provider, shadowCache, niLast, late, search, history, now, env,
                   gmailTokens, calendarTokens, searchCache, inv, faults>>

NextServers ==
    \E outcomes \in [1..Len(serverNames) -> RegistryOutcomes],
       unexpected \in BOOLEAN : ServeMcpServers(outcomes, unexpected)

SpecServers == InitServers /\ [][NextServers]_vars

\* C24: GET /api/mcp-servers always answers with a servers list and never
\* with an error: without an API key or on an unexpected error it is the
\* full fallback list; otherwise it is three descriptors in the order exa,
\* Gmail, calendar, each position holding the registry's descriptor when
\* its fetch succeeded and the fallback of the same name when it failed,
\* whatever the other fetches did.
C24_ServersListWithFallbacks ==
    applied.fn = "GET /api/mcp-servers" =>
        LET outcomes == applied.input[1]
            unexpected == applied.input[2]
            res == applied.out
        IN /\ ~res.threw
           /\ res.value.status = 200
           /\ IF "SMITHERY_API_KEY" \notin env \/ unexpected
              THEN res.value.servers = FALLBACK_SERVERS
              ELSE /\ Len(res.value.servers) = 3
                   /\ \A n \in 1..3 :
                        /\ res.value.servers[n].qualifiedName = serverNames[n]
                        /\ Succeeded(outcomes[n]) =>
                             res.value.servers[n]
                                = RegistryServer(serverNames[n], outcomes[n])
                        /\ ~Succeeded(outcomes[n]) =>
                             res.value.servers[n] = FallbackServer(serverNames[n])

C24_Witness ==
    /\ applied.fn = "GET /api/mcp-servers"
    /\ "SMITHERY_API_KEY" \in env
    /\ ~applied.input[2]
    /\ applied.input[1] = <<"full", "http_error", "no_tools">>
    /\ applied.out.value.servers[1].source = "registry"
    /\ applied.out.value.servers[2] = FallbackServer("@shinzo-labs/gmail-mcp")
    /\ applied.out.value.servers[3].source = "registry"

----------------------------------------------------------------------------
(* /api/auth/gmail and /api/auth/google-calendar: GET and POST *)

AuthRoutes == {"gmail", "calendar"}
NoSession == ""

\* how the token exchange with Google ends: fetch rejects, the status is
\* not ok, the body has no refresh_token, the body has the refresh token
\* of the Google account that granted the code
ExchangeOutcomes ==
    {[kind |-> "network_error", account |-> ""],
     [kind |-> "rejected", account |-> ""],
     [kind |-> "no_refresh_token", account |-> ""]}
    \cup {[kind |-> "refresh_token", account |-> g] : g \in Users}

\* a request: the session user of auth(), the code and the state of the
\* query string, how the exchange and the write to the store would end
AuthRequests ==
    [ session : Users \cup {NoSession}, code : BOOLEAN,
      state : Users, exchange : ExchangeOutcomes,
      storeOk : BOOLEAN ]

\* the response of GET and the token it asks the store to write, if any
AuthGETOutcome(req, write) ==
    IF req.session = NoSession THEN [status |-> 401, write |-> FALSE]
    ELSE IF "GOOGLE_CLIENT_ID" \notin env THEN [status |-> 500, write |-> FALSE]
    ELSE IF ~req.code THEN [status |-> 307, write |-> FALSE]
    ELSE IF req.exchange.kind = "network_error"
    THEN [status |-> 500, write |-> FALSE]
    ELSE IF req.exchange.kind = "rejected" THEN [status |-> 400, write |-> FALSE]
    ELSE IF req.exchange.kind = "no_refresh_token"
    THEN [status |-> 400, write |-> FALSE]
    ELSE IF ~req.storeOk THEN [status |-> 500, write |-> FALSE]
    ELSE [status |-> 307, write |-> write]

\* the credential store of a route after a write for user u
StoreAfter(k, store, out, u, token) ==
    IF out.write THEN [store EXCEPT ![u] = token] ELSE store

\* variant: the token is stored for the user named in the state parameter
AuthGETForState(k, req) ==
    LET out == AuthGETOutcome(req, TRUE)
        u == req.state
        token == TokenOf(req.exchange.account)
    IN /\ applied' = [fn |-> "GET", input |-> <<k, req>>, out |-> out]
       /\ gmailTokens' = IF k = "gmail"
                         THEN StoreAfter(k, gmailTokens, out, u, token)
                         ELSE gmailTokens
       /\ calendarTokens' = IF k = "calendar"
                            THEN StoreAfter(k, calendarTokens, out, u, token)
                            ELSE calendarTokens
       /\ UNCHANGED <<service, provider, shadowCache, niLast, late, search, history, now, env,
                      searchCache, inv, faults>>

\* GET of an auth route
AuthGET(k, req) ==
    LET out == AuthGETOutcome(req, TRUE)
        u == req.session
        token == TokenOf(req.exchange.account)
    IN /\ applied' = [fn |-> "GET", input |-> <<k, req>>, out |-> out]
       /\ gmailTokens' = IF k = "gmail"
                         THEN StoreAfter(k, gmailTokens, out, u, token)
                         ELSE gmailTokens
       /\ calendarTokens' = IF k = "calendar"
                            THEN StoreAfter(k, calendarTokens, out, u, token)
                            ELSE calendarTokens
       /\ UNCHANGED <<service, provider, shadowCache, niLast, late, search, history, now, env,
                      searchCache, inv, faults>>

\* POST of an auth route: updateUser...Token(session.user.id, null)
AuthPOST(k, session, storeOk) ==
    LET out == IF session = NoSession THEN [status |-> 401, write |-> FALSE]
               ELSE IF ~storeOk THEN [status |-> 500, write |-> FALSE]
               ELSE [status |-> 200, write |-> TRUE]
    IN /\ applied' = [fn |-> "POST",
                      input |-> <<k, [session |-> session, storeOk |-> storeOk]>>,
                      out |-> out]
       /\ gmailTokens' = IF k = "gmail"
                         THEN StoreAfter(k, gmailTokens, out, session, NoToken)
                         ELSE gmailTokens
       /\ calendarTokens' = IF k = "calendar"
                            THEN StoreAfter(k, calendarTokens, out, session, NoToken)
                            ELSE calendarTokens
       /\ UNCHANGED <<service, provider, shadowCache, niLast, late, search, history, now, env,
                      searchCache, inv, faults>>

InitAuth ==
    /\ now = 0
    /\ env \in {EnvVars, EnvVars \ {"GOOGLE_CLIENT_ID"}}
    /\ gmailTokens = NoneConnected
    /\ calendarTokens = NoneConnected
    /\ searchCache = <<>>
    /\ inv = [i \in InvIds |-> IdleInv]
    /\ faults = 0
    /\ shadowCache = <<>>
    /\ niLast = NoCall
    /\ late = NoLate
    /\ search = IdleSearch
    /\ history = <<>>
    /\ applied = NotApplied
    /\ service = IdleService
    /\ provider = IdleProvider

NextAuth ==
    \/ \E k \in AuthRoutes, req \in AuthRequests : AuthGET(k, req)
    \/ \E k \in AuthRoutes, session \in Users \cup {NoSession},
          storeOk \in BOOLEAN : AuthPOST(k, session, storeOk)

SpecAuth == InitAuth /\ [][NextAuth]_vars

\* the store of a route
StoreOf(k, gm, cal) == IF k = "gmail" THEN gm ELSE cal

\* C25: in the Gmail and calendar auth routes a refresh token is written
\* only for the session user and only after an exchange that succeeded and
\* returned a refresh_token; every other outcome of GET leaves every
\* stored credential unchanged; POST by an authenticated user sets that
\* user's credential to absent and changes no other user's.
C25_CredentialWrittenOnlyForSessionUser ==
    [][ LET k == applied'.input[1]
            req == applied'.input[2]
            other == CHOOSE o \in AuthRoutes : o # k
        IN /\ StoreOf(other, gmailTokens', calendarTokens')
                = StoreOf(other, gmailTokens, calendarTokens)
           /\ \A u \in Users :
                LET before == StoreOf(k, gmailTokens, calendarTokens)[u]
                    after == StoreOf(k, gmailTokens', calendarTokens')[u]
                IN /\ u # req.session => after = before
                   /\ (applied'.fn = "GET" /\ after # before) =>
                        /\ "GOOGLE_CLIENT_ID" \in env
                        /\ req.code
                        /\ req.exchange.kind = "refresh_token"
                        /\ after = TokenOf(req.exchange.account)
                   /\ (applied'.fn = "POST" /\ u = req.session) =>
                        /\ applied'.out.status = 200 => after = NoToken
                        /\ applied'.out.status # 200 => after = before ]_vars

C25_Witness ==
    /\ gmailTokens["u1"] = NoToken
    /\ gmailTokens["u2"] # NoToken
    /\ calendarTokens["u1"] # NoToken
    /\ applied.fn = "POST"
    /\ applied.input = <<"gmail", [session |-> "u1", storeOk |-> TRUE]>>
    /\ applied.out.status = 200

\* C26: within one invocation of executeGmailToolEnhanced, once a
\* call-tool step has returned a reply no further call-tool request is
\* issued: a failure after the remote call succeeded (closing the session,
\* extracting the text, populating the cache) never triggers a retry.
C26_NoCallAfterReply ==
    \A i \in InvIds :
        (inv[i].kind = "gmail" /\ inv[i].replyAttempt >= 0) =>
            /\ inv[i].pc \notin {"sleeping", "connecting", "calling"}
            /\ inv[i].attempt = inv[i].replyAttempt

----------------------------------------------------------------------------
(* executeGmailToolEnhanced on a clock that resolves the timeout *)

TimerStep == DefaultTimeout \div 2

\* setTimeout(reject, timeout) of the current attempt has run out
TimerDue(i) == inv[i].armedFor >= DefaultTimeout

\* time passes for the awaited steps, but no armed timer is passed over
TimePasses ==
    /\ now < MaxTimerTicks * TimerStep
    /\ \A i \in InvIds :
            inv[i].pc \in {"connecting", "calling"} =>
                inv[i].armedFor + TimerStep <= DefaultTimeout
    /\ now' = now + TimerStep
    /\ inv' = [i \in InvIds |->
                IF inv[i].pc = "connecting"
                THEN [inv[i] EXCEPT !.armedFor = @ + TimerStep]
                ELSE IF inv[i].pc = "calling"
                THEN [inv[i] EXCEPT !.armedFor = @ + TimerStep,
                                    !.callFor = @ + TimerStep]
                ELSE inv[i]]
    /\ UNCHANGED <<twin, env, gmailTokens, calendarTokens, searchCache, faults>>

\* the attempt's one timeoutPromise rejects when its timer has run out,
\* whichever of the two races is awaited then
GmailTimerFires(i) == TimerDue(i) /\ GmailTimeout(i)

NextTimer ==
    \/ \E r \in 0..MaxTimeoutRetries :
          GmailStart("A", "u1", "list_messages", ArgsQ1, FALSE, r)
    \/ GmailLookup("A")
    \/ ConnectOk("A")
    \/ CallOk("A", "text")
    \/ GmailTimerFires("A")
    \/ GmailCloseAfterReply("A")
    \/ GmailCloseAfterError("A", FALSE)
    \/ GmailSleepDone("A")
    \/ Return("A")
    \/ TimePasses

SpecTimer == InitSessions /\ [][NextTimer]_vars

\* C27: in each attempt the connect step and the call-tool step are each
\* raced against their own timer of `timeout` ms: the deadline of the
\* call-tool step starts when the call-tool step starts, so a call-tool
\* step is timed out only when it has been awaited for `timeout` ms.
C27_CallStepHasItsOwnDeadline ==
    [][ \A i \in InvIds :
            ( /\ inv[i].pc = "calling"
              /\ inv'[i].pc = "closingAfterError"
              /\ inv'[i].pending.kind = "timeout" )
            => inv[i].callFor >= DefaultTimeout ]_vars

\* C28: in the Exa executors the session is closed on every exit path
\* after it was created (success, connect failure, call-tool failure), and
\* when the call-tool step fails and closing then fails too, the error
\* the caller gets carries the call-tool failure, not the close error.
C28_ExaClosesAndKeepsFirstError ==
    \A i \in InvIds :
        (inv[i].kind = "exa" /\ Finished(inv[i])) =>
            /\ \A n \in 1..Len(inv[i].sessions) : inv[i].sessions[n] >= 1
            /\ ( /\ inv[i].pc = "failed"
                 /\ inv[i].calls > 0
                 /\ inv[i].replyAttempt < 0 ) => inv[i].error.step = "call"

\* the text of the first text-typed item of a content list, wherever it
\* stands, else the dump of the whole content
FirstTextItem(content) ==
    LET texts == SelectSeq(content, LAMBDA c : c.type = "text")
    IN IF texts # <<>> THEN texts[1].text
       ELSE [type |-> "dump", content |-> content]

\* C29: on a successful reply the result text of executeGmailToolEnhanced
\* and of executeGoogleCalendarTool is the text of the first text-typed
\* item of the reply's content list, wherever that item stands in the
\* list; only a list without text-typed item is dumped.
C29_FirstTextItemWherever ==
    \A i \in InvIds :
        ( /\ inv[i].kind \in {"gmail", "calendar"}
          /\ inv[i].pc = "done"
          /\ inv[i].replyAttempt >= 0 )
        => inv[i].result = FirstTextItem(inv[i].reply)

----------------------------------------------------------------------------
(* The cache key and the order of the arguments' fields *)

\* one arguments object written with its two fields in either order
ArgsQueryFirst == << <<"q", "invoice">>, <<"maxResults", "10">> >>
ArgsQueryLast == << <<"maxResults", "10">>, <<"q", "invoice">> >>

\* the objects with the same fields and values as a, in every key order
SameFields(a) ==
    { [n \in 1..Len(a) |-> a[p[n]]] : p \in Permutations(1..Len(a)) }

NextKeyOrder ==
    \/ \E i \in InvIds, a \in {ArgsQueryFirst, ArgsQueryLast} :
          GmailStart(i, "u1", "list_messages", a, TRUE, 1)
    \/ \E i \in InvIds : GmailLookup(i)
    \/ \E i \in InvIds : ConnectOk(i)
    \/ \E i \in InvIds : CallOk(i, "text")
    \/ \E i \in InvIds : GmailCloseAfterReply(i)
    \/ Tick

SpecKeyOrder == InitCache /\ [][NextKeyOrder]_vars

\* C30: the cache key is computed from the canonical form of the arguments:
\* a cacheable invocation that starts while an entry of the same caller and
\* tool, stored less than a TTL ago for arguments with the same fields and
\* values in some key order, is in the cache, is a cache hit.
C30_KeyIgnoresFieldOrder ==
    [][ \A i \in InvIds :
          ( /\ inv[i].pc = "idle"
            /\ inv'[i].pc # "idle"
            /\ inv'[i].kind = "gmail"
            /\ IsCacheable(inv'[i].useCache, inv'[i].toolName)
            /\ \E a \in SameFields(inv'[i].args) :
                  CacheHit(searchCache,
                           cacheKey(inv'[i].userId, inv'[i].toolName, a), now) )
          => inv'[i].hit ]_vars

\* C31: in searchEmails, semanticEmailSearch and enhancedEmailSearch an
\* invocation whose executor call returned a result, whatever its text,
\* has appended exactly one history record once it formats its result
\* (unless the append itself was rejected), and an invocation that is
\* still calling the executor or whose executor call failed has appended
\* none.
C31_OneRecordPerResult ==
    /\ ( /\ search.pc \in {"formatting", "fetching", "returned"}
         /\ ~search.saveFailed ) => search.rows = 1
    /\ search.pc \in {"calling", "failed"} => search.rows = 0

\* C32: for create_event, whenever the caller's arguments carry both a
\* start and an end time, the When line is computed from the caller's
\* values and never from the reply's Start/End; the times are formatted in
\* the caller's time zone, and when the caller gave none, in one and the
\* same default zone whatever the shape of the datetime strings.
C32_WhenFromCallerInOneZone ==
    ( /\ applied.fn = "createEvent"
      /\ applied.input[1] # <<>>
      /\ applied.input[2] # <<>>
      /\ applied.input[4].title )
    => LET when == applied.out.value.when
           tz == applied.input[3]
       IN /\ when.from = "args"
          /\ tz # "" => when.zone = tz
          /\ tz = "" =>
                \A st \in DateTimes \ {<<>>}, en \in DateTimes \ {<<>>} :
                    TryParseEventCreationResponse(applied.input[4],
                        createEvent(st, en, "")).value.when.zone = when.zone

\* C33: searchCache is written only by the step that ends an invocation of
\* executeGmailToolEnhanced successfully, after its remote call was
\* answered: every other step of an invocation, and so every invocation
\* that fails, leaves the cache unchanged; and in every reachable state each
\* cached value is the text extracted from a reply of the remote to a call
\* with exactly the entry's userId, toolName and args.
C33_CacheWrittenOnlyOnSuccess ==
    /\ [](\A n \in 1..Len(searchCache) :
            \E u \in Users \cup {BackgroundUser}, t \in CacheableTools,
               a \in {ArgsQ1} \cup {FillerArgs(m) : m \in 1..CacheCapacity} :
                /\ searchCache[n].key = cacheKey(u, t, a)
                /\ \E sh \in ReplyShapes \cup MalformedShapes, ver \in 0..now :
                      searchCache[n].result =
                        ExtractText(Content(sh, RemoteText(u, t, a, ver))))
    /\ [][ searchCache' # searchCache =>
            \/ searchCache' = <<>>
            \/ \E i \in InvIds :
                /\ inv[i].pc = "closingAfterSuccess"
                /\ inv[i].calls >= 1
                /\ inv'[i].pc = "done"
                /\ inv'[i].result = ExtractText(inv[i].reply)
                /\ searchCache' =
                        CacheStore(searchCache,
                                   cacheKey(inv[i].userId, inv[i].toolName,
                                            inv[i].args),
                                   inv'[i].result, now) ]_vars

C33_Witness ==
    /\ inv["A"].pc = "failed"
    /\ IsCacheable(inv["A"].useCache, inv["A"].toolName)
    /\ inv["A"].replyAttempt >= 0
    /\ inv["A"].retries = 2
    /\ searchCache = <<>>

\* C34: a cache hit in executeGmailToolEnhanced leaves searchCache
\* unchanged: no entry is added, removed or reordered and the timestamp of
\* the entry that was hit is not refreshed; so an entry is served while it
\* is aged less than CACHE_TTL and no longer once CACHE_TTL has passed
\* since it was stored, however often it was hit in between.
C34_HitLeavesCacheUnchanged ==
    [][ \A i \in InvIds :
          StartsCacheable(i) =>
            /\ inv'[i].hit => searchCache' = searchCache
            /\ \A n \in HeldFor(i) :
                  inv'[i].hit <=> now < searchCache[n].timestamp + CACHE_TTL
      ]_vars

\* an entry stored at time 0 that was hit at CACHE_TTL / 2 and is missed at
\* CACHE_TTL, the cache being what it was
C34_Witness ==
    \E i, j \in InvIds :
        /\ CacheableCall(i) /\ CacheableCall(j) /\ SameCall(i, j)
        /\ inv[i].hit /\ inv[i].startedAt = TickStep
        /\ ~inv[j].hit /\ inv[j].startedAt = CACHE_TTL
        /\ inv[j].pc = "lookup"
        /\ searchCache = FullCache

----------------------------------------------------------------------------
(* formatEmailResultsWithContent: the loop over the first messages *)

Min(a, b) == IF a < b THEN a ELSE b

\* emails.slice(0, 5)
emailsToProcess(emails) == SubSeq(emails, 1, Min(Len(emails), ContentLimit))

\* the formatter has parsed a list of n messages and enters its loop
ContentStart(n) ==
    /\ search.pc = "idle"
    /\ inv["A"].pc = "idle"
    /\ search' = [IdleSearch EXCEPT !.pc = "looping",
                                    !.tool = "formatEmailResultsWithContent",
                                    !.userId = "u1",
                                    !.parsed = "one",
                                    !.emails = [k \in 1..n |-> ToString(k)]]
    /\ UNCHANGED <<service, provider, applied, shadowCache, niLast, late, history, now, env,
                   gmailTokens, calendarTokens, searchCache, inv, faults>>

\* executeGmailTool('get_message', {id: email.id, format: 'full'}, userId)
ContentFetch ==
    /\ search.pc = "looping"
    /\ Len(search.entries) < Len(emailsToProcess(search.emails))
    /\ GmailStart("A", search.userId, "get_message",
                  << <<"id", emailsToProcess(search.emails)
                                [Len(search.entries) + 1]>>,
                     <<"format", "full">> >>, FALSE, 1)

\* the entry written for a message: the full one, or the fallback lines
\* of the inner catch when the fetch rejected or its text did not parse
ContentEntry(s, fetch) ==
    [ id |-> s.args[1][2],
      fetch |-> IF s.pc = "failed" THEN "fails" ELSE fetch,
      kind |-> IF s.pc = "done" /\ fetch = "ok" THEN "full" ELSE "fallback" ]

\* variant: a message that cannot be fetched ends the loop
ContentFetchedAborts(fetch) ==
    /\ search.pc = "looping"
    /\ Finished(inv["A"])
    /\ search' = IF inv["A"].pc = "failed"
                 THEN [search EXCEPT !.pc = "returned",
                                     !.returned = search.result]
                 ELSE [search EXCEPT !.entries =
                            Append(@, ContentEntry(inv["A"], fetch))]
    /\ inv' = [inv EXCEPT !["A"] = IdleInv]
    /\ UNCHANGED <<service, provider, applied, shadowCache, niLast, late, history, now, env,
                   gmailTokens, calendarTokens, searchCache, faults>>

\* get_message settled: the entry is written and the loop goes on
ContentFetched(fetch) ==
    /\ search.pc = "looping"
    /\ Finished(inv["A"])
    /\ search' = [search EXCEPT !.entries =
                        Append(@, ContentEntry(inv["A"], fetch))]
    /\ inv' = [inv EXCEPT !["A"] = IdleInv]
    /\ UNCHANGED <<service, provider, applied, shadowCache, niLast, late, history, now, env,
                   gmailTokens, calendarTokens, searchCache, faults>>

\* the loop is over: the note and the tip are added, the text is returned
ContentDone ==
    /\ search.pc = "looping"
    /\ inv["A"].pc = "idle"
    /\ Len(search.entries) = Len(emailsToProcess(search.emails))
    /\ search' = [search EXCEPT !.pc = "returned",
                    !.returned = [type |-> "listing_with_content",
                                  of |-> search.emails,
                                  content |-> search.entries]]
    /\ UNCHANGED <<service, provider, applied, shadowCache, niLast, late, history, now, env,
                   gmailTokens, calendarTokens, searchCache, inv, faults>>

NextContent ==
    \/ \E n \in 1..MaxEmails : ContentStart(n)
    \/ ContentFetch
    \/ \E fetch \in FetchOutcomes \ {"fails"} : ContentFetched(fetch)
    \/ ContentDone
    \/ SearchReturn
    \/ GmailLookup("A")
    \/ ConnectOk("A")
    \/ GmailCallFail("A")
    \/ CallOk("A", "text")
    \/ GmailCloseAfterReply("A")
    \/ GmailCloseAfterError("A", FALSE)
    \/ GmailSleepDone("A")

SpecContent == InitSessions /\ [][NextContent]_vars

\* C35: formatEmailResultsWithContent issues get_message calls for at most
\* the first 5 messages of the list, one after the other in list order,
\* each through its own executor invocation (own credential lookup and
\* session, at most 2 attempts); a message that cannot be fetched or parsed
\* gets the fallback entry, which neither fails the invocation nor stops
\* the remaining messages from being fetched.
C35_FirstFiveEachFetchedOrFallback ==
    /\ [](search.tool = "formatEmailResultsWithContent" =>
            LET s == inv["A"]
                done == Len(search.entries)
            IN /\ search.pc \in {"looping", "returned"}
               /\ search.error = NoError
               /\ done <= ContentLimit
               /\ \A k \in 1..done :
                    /\ search.entries[k].id = search.emails[k]
                    /\ search.entries[k].kind = "full"
                            <=> search.entries[k].fetch = "ok"
               /\ s.pc # "idle" =>
                    /\ done < ContentLimit
                    /\ s.args = << <<"id", search.emails[done + 1]>>,
                                   <<"format", "full">> >>
                    /\ s.toolName = "get_message"
                    /\ ~s.hit
                    /\ s.attempt <= 1
                    /\ Len(s.sessions) <= 2
                    /\ s.calls <= 2
               /\ search.pc = "returned" =>
                    /\ s.pc = "idle"
                    /\ done = Min(Len(search.emails), ContentLimit)
                    /\ search.returned.content = search.entries)
    /\ [][ (search.pc = "looping" /\ Len(search'.entries) > Len(search.entries))
            => /\ inv["A"].credRead
               /\ inv["A"].pc = "done" => Len(inv["A"].sessions) >= 1 ]_vars

\* six messages: the second could not be fetched, the later ones were
C35_Witness ==
    /\ search.pc = "returned"
    /\ Len(search.emails) = 6
    /\ Len(search.entries) = 5
    /\ search.entries[2].fetch = "fails"
    /\ search.entries[3].fetch = "not_json"
    /\ search.entries[5].kind = "full"

----------------------------------------------------------------------------
(* The SDK services: GmailService and ExaService have the same connect,   *)
(* disconnect, listTools, callTool and getConnectionStatus                 *)

\* connect() up to its await: returns if isConnected, else a new transport
\* and a new Client are assigned and client.connect is awaited
ServiceConnect(c) ==
    /\ service.connects[c] = 0
    /\ IF service.isConnected
       THEN service' = [service EXCEPT !.last = <<"connect", "returned">>]
       ELSE /\ Len(service.clients) < MaxClients
            /\ LET id == Len(service.clients) + 1
               IN service' = [service EXCEPT
                        !.transport = id, !.client = id,
                        !.clients = Append(@, "connecting"),
                        !.connects[c] = id,
                        !.last = <<"connect", "awaiting">>]
    /\ UNCHANGED <<now, env, gmailTokens, calendarTokens, searchCache, inv,
                   faults, shadowCache, niLast, late, search, history,
                   applied, provider>>

\* client.connect resolves: isConnected = true
ServiceConnectOk(c) ==
    /\ service.connects[c] # 0
    /\ service.clients[service.connects[c]] = "connecting"
    /\ service' = [service EXCEPT
            !.clients[service.connects[c]] = "connected",
            !.isConnected = TRUE,
            !.connects[c] = 0,
            !.last = <<"connect", "returned">>]
    /\ UNCHANGED <<now, env, gmailTokens, calendarTokens, searchCache, inv,
                   faults, shadowCache, niLast, late, search, history,
                   applied, provider>>

\* client.connect rejects: logged and rethrown, the fields stay
ServiceConnectFail(c) ==
    /\ service.connects[c] # 0
    /\ service' = [service EXCEPT
            !.clients[service.connects[c]] =
                IF @ = "connecting" THEN "failed" ELSE @,
            !.connects[c] = 0,
            !.last = <<"connect", "threw">>]
    /\ UNCHANGED <<now, env, gmailTokens, calendarTokens, searchCache, inv,
                   faults, shadowCache, niLast, late, search, history,
                   applied, provider>>

\* disconnect() up to its await: with a client, client.close is awaited;
\* without one it clears the transport and the flag and returns
ServiceDisconnect ==
    /\ service.closing = 0
    /\ service' =
        IF service.client # 0
        THEN [service EXCEPT !.disconnected = TRUE,
                             !.closing = service.client,
                             !.last = <<"disconnect", "awaiting">>]
        ELSE [service EXCEPT !.disconnected = TRUE,
                             !.transport = 0, !.isConnected = FALSE,
                             !.last = <<"disconnect", "returned">>]
    /\ UNCHANGED <<now, env, gmailTokens, calendarTokens, searchCache, inv,
                   faults, shadowCache, niLast, late, search, history,
                   applied, provider>>

\* client.close resolves: client, transport and flag are cleared
ServiceCloseOk ==
    /\ service.closing # 0
    /\ service' = [service EXCEPT
            !.clients[service.closing] = "closed",
            !.client = 0, !.transport = 0, !.isConnected = FALSE,
            !.closing = 0,
            !.last = <<"disconnect", "returned">>]
    /\ UNCHANGED <<now, env, gmailTokens, calendarTokens, searchCache, inv,
                   faults, shadowCache, niLast, late, search, history,
                   applied, provider>>

\* client.close rejects: disconnect() throws at its await
ServiceCloseThrows ==
    /\ service.closing # 0
    /\ service' = [service EXCEPT !.closing = 0,
                                  !.last = <<"disconnect", "threw">>]
    /\ UNCHANGED <<now, env, gmailTokens, calendarTokens, searchCache, inv,
                   faults, shadowCache, niLast, late, search, history,
                   applied, provider>>

\* what callTool and listTools do: throw without a client or a connection
ToolCall(s) ==
    IF s.client = 0 \/ ~s.isConnected THEN "not_connected" ELSE "remote_call"

ServiceCallTool(op) ==
    /\ service' = [service EXCEPT !.last = <<op, ToolCall(service)>>]
    /\ UNCHANGED <<now, env, gmailTokens, calendarTokens, searchCache, inv,
                   faults, shadowCache, niLast, late, search, history,
                   applied, provider>>

NextService ==
    \/ \E c \in ConnectCalls : ServiceConnect(c)
    \/ \E c \in ConnectCalls : ServiceConnectOk(c)
    \/ \E c \in ConnectCalls : ServiceConnectFail(c)
    \/ ServiceDisconnect
    \/ ServiceCloseOk
    \/ ServiceCloseThrows
    \/ \E op \in {"callTool", "listTools"} : ServiceCallTool(op)

SpecService == InitSessions /\ [][NextService]_vars

\* C36: for a GmailService or ExaService instance, under any interleaving
\* of connect() calls without a disconnect(), at most one Client is
\* connecting or connected at any time, and every connected Client is the
\* one the service refers to.
C36_OneClientPerService ==
    ~service.disconnected =>
        /\ Cardinality({ id \in 1..Len(service.clients) :
                service.clients[id] \in {"connecting", "connected"} }) <= 1
        /\ \A id \in 1..Len(service.clients) :
                service.clients[id] = "connected" => service.client = id

\* C37: when disconnect() of a GmailService or ExaService has finished, by
\* returning or by throwing, the service is disconnected:
\* getConnectionStatus() is false, client and transport are cleared, and
\* callTool and listTools throw 'not connected' without a remote call.
C37_DisconnectedAfterDisconnect ==
    ( /\ service.last[1] = "disconnect"
      /\ service.last[2] \in {"returned", "threw"} )
    => /\ ~service.isConnected
       /\ service.client = 0
       /\ service.transport = 0
       /\ ToolCall(service) = "not_connected"

----------------------------------------------------------------------------
(* MCPProvider: connectToServer and disconnectServer *)

qualifiedNames == {"exa", "@shinzo-labs/gmail-mcp"}

\* `${server.qualifiedName}-${Date.now()}`
ConnectionId(name, t) == <<name, "-", t>>

\* prev.map((s) => s.connectionId === connectionId ? entry : s)
MapEntry(servers, entry) ==
    [ k \in 1..Len(servers) |->
        IF servers[k].connectionId = entry.connectionId THEN entry
                                                        ELSE servers[k] ]

\* connectToServer up to its await: without an API key it sets the error
\* and returns; else the entries of this server are filtered out, the
\* connecting entry is appended and the server details are fetched
connectToServer(name, apiKey) ==
    /\ provider.calls < MaxConnects
    /\ provider' =
        IF ~apiKey THEN [provider EXCEPT !.calls = @ + 1]
        ELSE LET id == ConnectionId(name, now)
                 filtered == SelectSeq(provider.connectedServers,
                                LAMBDA e : e.qualifiedName # name)
             IN [provider EXCEPT
                    !.calls = @ + 1,
                    !.connectedServers =
                        Append(filtered, [qualifiedName |-> name,
                                          connectionId |-> id,
                                          status |-> "connecting"]),
                    !.pending = Append(@, [qualifiedName |-> name,
                                           connectionId |-> id])]
    /\ UNCHANGED <<now, env, gmailTokens, calendarTokens, searchCache, inv,
                   faults, shadowCache, niLast, late, search, history,
                   applied, service>>

\* the fetch of call k settles, later than the call was made: ok and
\* parsed, or the catch block
DetailsSettle(k, ok) ==
    /\ k \in 1..Len(provider.pending)
    /\ provider.pending[k].connectionId[3] < now
    /\ provider' = [provider EXCEPT
            !.connectedServers =
                MapEntry(@, [qualifiedName |-> provider.pending[k].qualifiedName,
                             connectionId |-> provider.pending[k].connectionId,
                             status |-> IF ok THEN "connected" ELSE "error"]),
            !.pending = SubSeq(@, 1, k - 1) \o SubSeq(@, k + 1, Len(@))]
    /\ UNCHANGED <<now, env, gmailTokens, calendarTokens, searchCache, inv,
                   faults, shadowCache, niLast, late, search, history,
                   applied, service>>

\* disconnectServer(connectionId) for an entry that is listed
disconnectServer(k) ==
    /\ k \in 1..Len(provider.connectedServers)
    /\ provider' = [provider EXCEPT
            !.connectedServers =
                SelectSeq(@, LAMBDA e : e.connectionId #
                            provider.connectedServers[k].connectionId)]
    /\ UNCHANGED <<now, env, gmailTokens, calendarTokens, searchCache, inv,
                   faults, shadowCache, niLast, late, search, history,
                   applied, service>>

NextProvider ==
    \/ \E name \in qualifiedNames, apiKey \in BOOLEAN :
          connectToServer(name, apiKey)
    \/ \E k \in 1..MaxConnects, ok \in BOOLEAN : DetailsSettle(k, ok)
    \/ \E k \in 1..MaxConnects : disconnectServer(k)
    \/ Tick

SpecProvider == InitSessions /\ [][NextProvider]_vars

\* C38: in MCPProvider, after any interleaving of connectToServer and
\* disconnectServer, connectedServers holds at most one entry per
\* qualifiedName; an entry's status moves only from 'connecting' to
\* 'connected' or 'error'; and a connectToServer that completes neither
\* adds an entry nor brings back one that was removed or replaced.
C38_EntriesSettleOnce ==
    /\ [](\A k, m \in 1..Len(provider.connectedServers) :
            provider.connectedServers[k].qualifiedName
                = provider.connectedServers[m].qualifiedName => k = m)
    /\ [][ \A k \in 1..Len(provider.connectedServers),
              m \in 1..Len(provider'.connectedServers) :
                ( /\ provider.connectedServers[k].connectionId
                        = provider'.connectedServers[m].connectionId
                  /\ provider.connectedServers[k].status
                        # provider'.connectedServers[m].status )
                => /\ provider.connectedServers[k].status = "connecting"
                   /\ provider'.connectedServers[m].status
                        \in {"connected", "error"} ]_vars
    /\ [][ Len(provider'.pending) < Len(provider.pending) =>
            { provider'.connectedServers[m].connectionId :
                    m \in 1..Len(provider'.connectedServers) }
            = { provider.connectedServers[k].connectionId :
                    k \in 1..Len(provider.connectedServers) } ]_vars

====
